---- MODULE Spec2Model ----
(***************************************************************************)
(* State-machine model of noex_client: the RequestManager (correlation     *)
(* IDs, pending table, timers), the WebSocketTransport (physical state,    *)
(* receive task, message listeners), the SubscriptionManager and the       *)
(* NoexClient orchestrator (connect, disconnect, request, transport-close  *)
(* handling and the reconnect loop).  Every action is one run of a handler *)
(* or of a coroutine between two suspension points of the asyncio loop.    *)
(***************************************************************************)
EXTENDS Integers, Sequences, FiniteSets, TLC

\* ---------------------------------------------------------------- bounds
MaxReqs == 3         \* ids a run of SpecRM may allocate
MaxClientReqs == 2   \* ids a run of Spec may allocate
MaxSubReqs == 4      \* ids a run of SpecSub may allocate
MaxLifeReqs == 3     \* ids a run of SpecLife may allocate
MaxAuthReqs == 2     \* ids a run of SpecAuth may allocate
MaxFrameReqs == 2    \* ids a run of SpecFrames may allocate
MaxConns == 2        \* physical connections a run may open
MaxRetriesCfg == 1   \* max_retries is configured as 0..MaxRetriesCfg
MaxListeners == 2    \* welcome listeners registered on the transport at a time
MaxSubs == 2         \* subscriptions the application creates
MaxUnsubCalls == 2   \* calls of the unsubscribe function of one subscription
MaxHandlers == 2     \* handlers registered with on() for one event
MaxAttempt == 4      \* get_delay is called with the attempts 0..MaxAttempt
MaxJitter == 2       \* jitter_ms is configured as 0 or MaxJitter

\* ------------------------------------------------------------- constants
NoId == 0
Max(S) == CHOOSE x \in S : \A y \in S : y <= x
Ids == 1..Max({MaxReqs, MaxClientReqs, MaxSubReqs})
Tasks == {"conn", "loop"}
NonResponseTypes == {"push", "ping", "welcome", "system"}
CloseEvents ==
    { <<1001, "going_away">>, <<1003, "binary_not_supported">>,
      <<4002, "session_revoked">>, <<4003, "too_many_connections">> }
NonRetryableCodes == {1003, 4002, 4003}
SubIds == {"s1", "s2"}
Entries == 1..MaxSubs

VARIABLES
    cfg,            \* ClientOptions: reconnect strategy, max_retries, auth
    state,          \* NoexClient._state
    intentional,    \* NoexClient._intentional_disconnect
    reconnecting,   \* NoexClient._reconnecting
    abortEv,        \* NoexClient._reconnect_abort: "none" | "clear" | "set"
    tstate,         \* WebSocketTransport._state
    ws,             \* WebSocketTransport._ws: 0 is None, else the connection
    recv,           \* the connections whose receive task is running
    rtask,          \* WebSocketTransport._recv_task: 0 is None, else its connection
    conns,          \* number of physical connections opened so far
    welcomed,       \* the connections whose welcome the server has sent
    wl,             \* welcome listeners on the transport's "message" event
    nextId,         \* RequestManager._next_id
    pending,        \* RequestManager._pending: id -> msg_type
    timer,          \* ids whose timeout handle is scheduled
    fut,            \* id -> state of the future created by send()
    setCount,       \* id -> number of set_result/set_exception calls
    sendFailed,     \* ids whose transport.send raised inside send()
    sent,           \* <<id, connection>> of every frame handed to the socket
    pc,             \* task -> suspension point of connect() / the loop
    wfut,           \* task -> state of the welcome future of _perform_connect
    login,          \* task -> id of the auto-login request it awaits
    attempt,        \* local variable attempt of _handle_reconnect
    discPc,         \* suspension point of disconnect()
    rq,             \* the event loop's queue of woken tasks, first in first out
    snap,           \* resubscribe_all: the snapshot list of entries
    ri,             \* resubscribe_all: position in the snapshot
    rid,            \* resubscribe_all: id of the request it awaits
    subs,           \* SubscriptionManager._subscriptions, in dict order
    entryId,        \* entry -> its id field
    sstat,          \* entry -> "new" | "subscribing" | "active" | "failed"
    unsubCalls,     \* entry -> number of calls of its unsubscribe function
    reqFor,         \* id -> the entry a (re)subscribe request was sent for
    srv,            \* server: subscription id -> entry and request, per connection
    lostWith,       \* the entries in the table when the reconnect loop was started
    called,         \* subscription callbacks invoked by the most recent step
    last,           \* the most recent operation and how it returned
    emitted,        \* events emitted to the client's listeners by that step
    invoked,        \* the handlers _emit_event invoked for them, in order
    routed,         \* the calls of the PushRouter's handler made by that step
    frame           \* the frame the receive task read in that step

vars == << cfg, state, intentional, reconnecting, abortEv, tstate, ws, recv,
           conns, welcomed, wl, nextId, pending, timer, fut, setCount,
           sendFailed, sent, pc, wfut, login, attempt, discPc, snap, ri, rid,
           subs, entryId, sstat, reqFor, srv, called, last, emitted,
           rtask, rq, lostWith, unsubCalls, invoked, routed, frame >>

clVars == << state, intentional, reconnecting, abortEv >>
trVars == << tstate, ws, recv, rtask, conns, welcomed, wl >>
rmVars == << nextId, pending, timer, fut, setCount, sendFailed, sent >>
taskVars == << pc, wfut, login, attempt, discPc, snap, ri, rid >>
\* each action also sets rq, last, emitted, invoked, called, routed and frame
subVars == << subs, entryId, sstat, unsubCalls, reqFor, srv, lostWith >>

\* ------------------------------------------------------ values and helpers
EmptyMap == [k \in {} |-> "-"]

NoFut == [st |-> "none", code |-> "-", type |-> "-", id |-> 0, data |-> "-"]

Waiting == [st |-> "waiting", code |-> "-", type |-> "-", id |-> 0, data |-> "-"]

\* a JSON value that is present and is not a string (a number, null, a list)
NotStr == "#"

\* isinstance(v, str): "-" stands for a key the frame does not have
IsStr(v) == v \notin {"-", NotStr}

\* a decoded frame. idk is the kind of its id: "int", "bool" (JSON true is
\* the dict key 1, false the key 0), "other" (a string, a float, null) or
\* "none" (no id); chan is its channel
Frame(type, id, idk, data, code, sub, chan, auth) ==
    [type |-> type, id |-> id, idk |-> idk, data |-> data, code |-> code,
     sub |-> sub, chan |-> chan, auth |-> auth]

\* the value of frame after a step that read none
NoFrame == Frame("-", 0, "none", "-", "-", "-", "-", FALSE)

\* a frame of the protocol: the id, when it has one, is an integer, and a
\* push names its subscription and its channel
Msg(type, id, data, code, sub, auth) ==
    Frame(type, id, IF id = 0 THEN "none" ELSE "int", data, code, sub,
          IF type = "push" THEN "subscription" ELSE "-", auth)

Ev(name, reason, n) == [name |-> name, reason |-> reason, n |-> n]

Op(op, ret) == [op |-> op, ret |-> ret, code |-> 0]

\* last after a step that is no call or return of the application's API
Silent == Op("-", "-")

\* errors.py: the exceptions a future can be failed with
DisconnectedError(text) ==
    [st |-> "error", code |-> "DISCONNECTED", type |-> "-", id |-> 0,
     data |-> text]

RequestTimeoutError(msgType, id) ==
    [st |-> "error", code |-> "TIMEOUT", type |-> msgType, id |-> id,
     data |-> "timed out"]

NoexClientError(code, text) ==
    [st |-> "error", code |-> code, type |-> "-", id |-> 0, data |-> text]

Result(data) ==
    [st |-> "result", code |-> "-", type |-> "-", id |-> 0, data |-> data]

\* dict.pop(key): the table without the key
Pop(p, k) == [i \in (DOMAIN p) \ {k} |-> p[i]]

\* dict[key] = value
Put(p, k, v) == [i \in (DOMAIN p) \cup {k} |-> IF i = k THEN v ELSE p[i]]

\* ----------------------------------------------------------- the event loop
\* A task that awaits a future is woken by loop.call_soon when the future
\* completes, and a task made by create_task is started the same way: the
\* woken tasks run first in, first out.  Socket input, timers and calls of
\* the application are not ordered against them.
Tok(k, t, id) == [k |-> k, t |-> t, id |-> id]

\* the task that awaits the future of request id, if the model has one:
\* an auto-login, the resend of resubscribe_all, a store.subscribe call
AwaiterOf(id) ==
    IF \E t \in Tasks : pc[t] = "login" /\ login[t] = id
      THEN << Tok("login", CHOOSE t \in Tasks : pc[t] = "login" /\ login[t] = id, 0) >>
    ELSE IF pc["loop"] = "resub" /\ rid = id
      THEN << Tok("resub", "-", 0) >>
    ELSE IF reqFor[id] # 0 /\ sstat[reqFor[id]] = "subscribing"
      THEN << Tok("sub", "-", id) >>
    ELSE << >>

RECURSIVE WakeFrom(_, _)
\* the wake-ups for the futures S completed in one pass over the pending
\* table, in the table's order (ids are inserted in increasing order)
WakeFrom(S, i) ==
    IF i > Max(Ids) THEN << >>
    ELSE (IF i \in S THEN AwaiterOf(i) ELSE << >>) \o WakeFrom(S, i + 1)

Wake(S) == WakeFrom(S, 1)

\* disconnect() has set the abort event the loop is waiting on, and the
\* loop task has not run since
AbortSignalled == \E i \in 1..Len(rq) : rq[i] = Tok("abort", "-", 0)

\* _reconnect_abort.set(): wakes the loop task when it waits on the event
AbortWake ==
    IF pc["loop"] = "backoff" /\ abortEv = "clear"
      THEN << Tok("abort", "-", 0) >> ELSE << >>

\* the woken task at the head of the queue
Head1(q) == IF q = << >> THEN Tok("-", "-", 0) ELSE Head(q)

\* ------------------------------------------------------------- _emit_event

\* an _emit_event that lets the first exception of a handler end the loop
EmitEventStops(hs, ev) ==
    LET bad == { i \in 1..Len(hs) : hs[i] }
        n == IF bad = {} THEN Len(hs)
             ELSE CHOOSE i \in bad : \A j \in bad : i <= j
    IN [i \in 1..n |-> [ev |-> ev.name, h |-> i, raised |-> hs[i]]]

\* _emit_event(event): the handlers registered for the event are called in
\* list order, each in its own try block; hs[i] says whether handler i raises
EmitEvent(hs, ev) ==
    [i \in 1..Len(hs) |-> [ev |-> ev.name, h |-> i, raised |-> hs[i]]]

RECURSIVE EmitAll(_, _)
\* the handler calls of a step that emits the events evs one after another
EmitAll(hs, evs) ==
    IF evs = << >> THEN << >>
    ELSE EmitEvent(hs, Head(evs)) \o EmitAll(hs, Tail(evs))

\* a step of the client that emits the events evs
Emits(evs) ==
    /\ emitted' = evs
    /\ invoked' = EmitAll(cfg.handlers, evs)

\* ============================================================ RequestManager

\* transport.send raises unless the socket exists and the state is connected
TransportCanSend == ws # 0 /\ tstate = "connected"

\* a send that takes the id without advancing the counter
RMSendSameId(msgType) ==
    /\ nextId' = nextId
    /\ timer' = timer \cup {nextId}
    /\ pending' = Put(pending, nextId, msgType)
    /\ fut' = [fut EXCEPT ![nextId] = Waiting]
    /\ setCount' = setCount
    /\ IF TransportCanSend
         THEN sent' = sent \cup {<<nextId, ws>>} /\ sendFailed' = sendFailed
         ELSE sent' = sent /\ sendFailed' = sendFailed \cup {nextId}

\* RequestManager.send up to its await: allocate the id, arm the timer,
\* register the entry, hand the frame to the transport (which may raise)
RMSend(msgType) ==
    /\ nextId' = nextId + 1
    /\ timer' = timer \cup {nextId}
    /\ pending' = Put(pending, nextId, msgType)
    /\ fut' = [fut EXCEPT ![nextId] = Waiting]
    /\ setCount' = setCount
    /\ IF TransportCanSend
         THEN sent' = sent \cup {<<nextId, ws>>} /\ sendFailed' = sendFailed
         ELSE sent' = sent /\ sendFailed' = sendFailed \cup {nextId}

\* Future.set_result / set_exception: only a future that is not done changes
SetFuture(f, id, v) == IF f[id].st = "waiting" THEN [f EXCEPT ![id] = v] ELSE f

\* a handle_message that takes the oldest pending entry instead
ResponseKeyOldest(p, msg) ==
    IF DOMAIN p = {} THEN msg.id ELSE CHOOSE k \in DOMAIN p : \A j \in DOMAIN p : k <= j

\* the key handle_message looks up: the message's own id
ResponseKey(p, msg) == msg.id

\* isinstance(msg_id, int): bool is a subclass of int
IsInt(msg) == msg.idk \in {"int", "bool"}

\* handle_message consumes the message (returns True)
RMConsumes(p, msg) ==
    /\ msg.type \notin NonResponseTypes
    /\ IsInt(msg)
    /\ ResponseKey(p, msg) \in DOMAIN p

\* what handle_message completes the future with
ResponseOutcome(msg) ==
    IF msg.type = "result" THEN Result(msg.data)
    ELSE IF msg.type = "error" THEN NoexClientError(msg.code, msg.data)
    ELSE NoexClientError("UNKNOWN", "Unexpected response type")

\* handle_message on a consumed message: pop, cancel the timer, complete
RMHandle(msg) ==
    LET k == ResponseKey(pending, msg) IN
    /\ pending' = Pop(pending, k)
    /\ timer' = timer \ {k}
    /\ fut' = SetFuture(fut, k, ResponseOutcome(msg))
    /\ setCount' = [setCount EXCEPT ![k] = @ + 1]
    /\ UNCHANGED << nextId, sendFailed, sent >>

\* a reject_all that cancels no timer
RejectAllCancelsNone(p) == {}

\* the timers reject_all cancels: those of the entries in the table
RejectAllCancels(p) == DOMAIN p

\* a reject_all that forgets to clear the table
RejectAllLeavesAll(p) == p

\* the table reject_all leaves behind
RejectAllLeaves(p) == EmptyMap

\* the futures of the table that are not done
Rejected == { i \in DOMAIN pending : fut[i].st = "waiting" }

\* reject_all: cancel every timer, fail every future not done, clear
RMRejectAll(err) ==
    /\ timer' = timer \ RejectAllCancels(pending)
    /\ fut' = [i \in Ids |->
                 IF i \in DOMAIN pending THEN SetFuture(fut, i, err)[i]
                 ELSE fut[i]]
    /\ setCount' = [i \in Ids |->
                      IF i \in DOMAIN pending /\ fut[i].st = "waiting"
                        THEN setCount[i] + 1 ELSE setCount[i]]
    /\ pending' = RejectAllLeaves(pending)
    /\ UNCHANGED << nextId, sendFailed, sent >>

\* a _handle_timeout that reads the entry without popping it
TimeoutLeavesEntry(p, id) == p

\* the table _handle_timeout leaves behind
TimeoutLeaves(p, id) == Pop(p, id)

\* the timer callback _handle_timeout(msg_id)
HandleTimeout(id) ==
    /\ id \in timer
    /\ timer' = timer \ {id}
    /\ pending' = TimeoutLeaves(pending, id)
    /\ IF id \in DOMAIN pending /\ fut[id].st = "waiting"
         THEN /\ fut' = [fut EXCEPT ![id] = RequestTimeoutError(pending[id], id)]
              /\ setCount' = [setCount EXCEPT ![id] = @ + 1]
              /\ rq' = rq \o Wake({id})
         ELSE UNCHANGED << fut, setCount, rq >>
    /\ UNCHANGED << nextId, sendFailed, sent >>
    /\ last' = [op |-> "timeout", ret |-> "-", code |-> id]
    /\ Emits(<< >>)
    /\ called' = << >> /\ routed' = << >> /\ frame' = NoFrame
    /\ UNCHANGED << cfg, clVars, trVars, taskVars, subVars >>

\* ================================================================== client

\* a request() that refuses only in state disconnected
RequestAllowedNotDisconnected(s) == s # "disconnected"

\* NoexClient.request lets the call through to RequestManager.send
RequestAllowed(s) == s = "connected"

\* NoexClient.request called by application code
Request ==
    /\ IF RequestAllowed(state)
         THEN /\ nextId <= cfg.maxId
              /\ RMSend("op")
              /\ last' = Op("request",
                            IF TransportCanSend THEN "await" ELSE "ConnectionError")
         ELSE /\ UNCHANGED rmVars
              /\ last' = Op("request", "DISCONNECTED")
    /\ Emits(<< >>)
    /\ called' = << >> /\ routed' = << >> /\ frame' = NoFrame
    /\ UNCHANGED rq
    /\ UNCHANGED << cfg, clVars, trVars, taskVars, subVars >>

\* ------------------------------------------------------------ event fan-out

\* WebSocketTransport._emit walks the listener list by index while the
\* welcome listeners remove themselves from it: of the welcome listeners
\* (the client's own listener is at index 0 and stays) the 1st, 3rd, ...
\* are invoked and removed, the 2nd, 4th, ... are skipped and stay
InvokedListeners(l) == { l[i] : i \in { j \in 1..Len(l) : j % 2 = 1 } }

RemainingListeners(l) == [i \in 1..(Len(l) \div 2) |-> l[2 * i]]

\* listeners.remove(handler)
RemoveListener(l, t) == SelectSeq(l, LAMBDA x : x # t)

\* the listener of a welcome future that is done stays in the list
Stale(l, t) == [i \in 1..Len(l) |-> IF l[i] = t THEN "stale" ELSE l[i]]

\* ------------------------------------------------------- ReconnectStrategy

\* a get_delay that allows one attempt more
GivesUpLate(a) == a > cfg.maxRetries

\* get_delay(attempt) is None
GivesUp(a) == a >= cfg.maxRetries

MaxReached == "Max reconnect attempts reached"

\* max_retries = float("inf"), the default: above every attempt
Infinity == 1000000

\* the least n for which the float power 2.0 ** n raises OverflowError
Pow2Limit == 1024

\* the least n for which the float power 10.0 ** n raises OverflowError
Pow10Limit == 309

\* the least n for which backoff_multiplier ** n raises OverflowError; the
\* power of an int multiplier is an int of any size and never raises
PowLimit(m, isFloat) ==
    IF ~isFloat THEN Infinity
    ELSE IF m = 2 THEN Pow2Limit
    ELSE IF m = 10 THEN Pow10Limit
    ELSE Infinity

MinOf(a, b) == IF a < b THEN a ELSE b

RECURSIVE Capped(_, _, _, _)
\* min(initial_delay_ms * multiplier ** a, max_delay_ms), for a multiplier
\* of at least 2: the product is not computed beyond the cap
Capped(init, m, cap, a) ==
    IF a = 0 \/ init >= cap THEN MinOf(init, cap)
    ELSE Capped(init * m, m, cap, a - 1)

\* random.random() * jitter_ms, in whole milliseconds
JitterDraws(jitter) == IF jitter = 0 THEN {0} ELSE 0..(jitter - 1)

\* get_delay(a) with the random draw u: None, or the OverflowError of the
\* power, or the capped base plus the jitter
GetDelayResult(a, u) ==
    IF GivesUp(a) THEN [ret |-> "none", v |-> 0]
    ELSE IF a >= PowLimit(cfg.backoff[3], cfg.floatMult)
      THEN [ret |-> "OverflowError", v |-> 0]
    ELSE [ret |-> "delay",
          v |-> Capped(cfg.backoff[1], cfg.backoff[3], cfg.backoff[2], a) + u]

\* _handle_reconnect from the head of its while loop to the backoff wait
LoopTop(a) ==
    IF intentional
      THEN [state |-> "disconnected", rec |-> FALSE, pc |-> "idle",
            abort |-> abortEv, ev |-> << >>]
    ELSE IF GivesUp(a)
      THEN [state |-> "disconnected", rec |-> FALSE, pc |-> "idle",
            abort |-> abortEv,
            ev |-> << Ev("disconnected", MaxReached, 0),
                      Ev("error", MaxReached, 0) >>]
    ELSE [state |-> "reconnecting", rec |-> TRUE, pc |-> "backoff",
          abort |-> "clear", ev |-> << Ev("reconnecting", "-", a + 1) >>]

RunLoopTop(a) ==
    /\ state' = LoopTop(a).state
    /\ reconnecting' = LoopTop(a).rec
    /\ pc' = [pc EXCEPT !["loop"] = LoopTop(a).pc]
    /\ abortEv' = LoopTop(a).abort
    /\ Emits(LoopTop(a).ev)
    /\ attempt' = a

\* ReconnectStrategy.get_delay(a) called on its own
GetDelay(a, u) ==
    /\ attempt' = a
    /\ last' = [op |-> "get_delay", ret |-> GetDelayResult(a, u).ret,
                code |-> GetDelayResult(a, u).v]
    /\ emitted' = << >> /\ invoked' = << >>
    /\ called' = << >> /\ routed' = << >> /\ frame' = NoFrame
    /\ UNCHANGED << cfg, clVars, trVars, rmVars, pc, wfut, login, discPc,
                    snap, ri, rid, subVars, rq >>

\* the loop leaves through its break statements
LoopBreak ==
    /\ state' = "disconnected"
    /\ reconnecting' = FALSE
    /\ pc' = [pc EXCEPT !["loop"] = "idle"]
    /\ Emits(<< >>)
    /\ UNCHANGED << abortEv, attempt >>

\* ---------------------------------------------------- transport-close path

\* an _on_transport_close that does not look at the intentional flag
StartsReconnectAlways(intent, strategy, running) == strategy /\ ~running

\* an _on_transport_close that does not look at the _reconnecting flag
StartsReconnectWhileRunning(intent, strategy, running) == ~intent /\ strategy

\* _on_transport_close starts the reconnect loop
StartsReconnect(intent, strategy, running) ==
    ~intent /\ strategy /\ ~running

\* an _on_transport_close that leaves the pending requests alone
CloseRejectsNever(intent) == FALSE

\* _on_transport_close rejects the pending requests
CloseRejects(intent) == ~intent

\* the receive task of connection c ends on a close of the socket:
\* emit("close") runs _on_transport_close, then the finally block resets
\* the transport
RecvClose(c, code, reason) ==
    /\ c \in recv
    /\ IF CloseRejects(intentional)
         THEN RMRejectAll(DisconnectedError("Connection lost"))
         ELSE UNCHANGED rmVars
    /\ rq' = rq \o (IF CloseRejects(intentional) THEN Wake(Rejected) ELSE << >>)
               \o (IF StartsReconnect(intentional, cfg.reconnect, reconnecting)
                     THEN << Tok("loop", "-", 0) >> ELSE << >>)
    /\ IF StartsReconnect(intentional, cfg.reconnect, reconnecting)
         THEN /\ reconnecting' = TRUE
              /\ pc' = [pc EXCEPT !["loop"] = "start"]
              /\ Emits(<< >>)
              /\ UNCHANGED state
         ELSE IF ~reconnecting
           THEN /\ state' = "disconnected"
                /\ Emits(<< Ev("disconnected", reason, 0) >>)
                /\ UNCHANGED << reconnecting, pc >>
           ELSE /\ Emits(<< >>)
                /\ UNCHANGED << state, reconnecting, pc >>
    /\ tstate' = "disconnected"
    /\ ws' = 0
    /\ recv' = recv \ {c}
    /\ lostWith' = IF StartsReconnect(intentional, cfg.reconnect, reconnecting)
                      THEN { subs[i].e : i \in 1..Len(subs) }
                      ELSE lostWith
    /\ last' = [op |-> "close", ret |-> reason, code |-> code]
    /\ called' = << >> /\ routed' = << >> /\ frame' = NoFrame
    /\ UNCHANGED << cfg, intentional, abortEv, conns, rtask, welcomed, wl,
                    wfut, login, attempt, discPc, snap, ri, rid, subs, entryId,
                    sstat, unsubCalls, reqFor, srv >>

\* the receive task of connection c ends on another exception:
\* emit("error") runs _on_transport_error, then the finally block resets
\* the transport
RecvError(c) ==
    /\ c \in recv
    /\ Emits(<< Ev("error", "receive failed", 0) >>)
    /\ tstate' = "disconnected"
    /\ ws' = 0
    /\ recv' = recv \ {c}
    /\ last' = Silent
    /\ called' = << >> /\ routed' = << >> /\ frame' = NoFrame
    /\ UNCHANGED << cfg, clVars, conns, rtask, welcomed, wl, rmVars,
                    taskVars, subVars, rq >>

\* ====================================================== SubscriptionManager
\* the table is a Python dict: a sequence of [k, e] in insertion order

Keys(sb) == { sb[i].k : i \in 1..Len(sb) }

\* dict.values(), in dict order
Values(sb) == [i \in 1..Len(sb) |-> sb[i].e]

\* dict.get(k): the entry under k, 0 for None
Get(sb, k) ==
    IF k \in Keys(sb)
      THEN sb[CHOOSE i \in 1..Len(sb) : sb[i].k = k].e
      ELSE 0

\* register: _subscriptions[entry.id] = entry
Register(sb, k, e) ==
    IF k \in Keys(sb)
      THEN [i \in 1..Len(sb) |-> IF sb[i].k = k THEN [k |-> k, e |-> e] ELSE sb[i]]
      ELSE Append(sb, [k |-> k, e |-> e])

\* unregister: _subscriptions.pop(id, None)
Unregister(sb, k) == SelectSeq(sb, LAMBDA x : x.k # k)

\* the request type of the subscription of entry e: the odd entries are made
\* by store.subscribe, the even ones by rules.subscribe
SubscribeType(e) ==
    IF e % 2 = 1 THEN "store.subscribe" ELSE "rules.subscribe"

\* the response to the subscribe request of entry e carries initial data:
\* store.subscribe answers with subscriptionId and data, rules.subscribe
\* with subscriptionId only
HasData(e) == SubscribeType(e) = "store.subscribe"

\* a handle_push that calls the callback of the first entry of the table
HandlePushFirst(sb, k, data) ==
    IF sb = << >> THEN << >> ELSE << [cb |-> sb[1].e, data |-> data] >>

\* handle_push: the callbacks invoked for a push to subscription id k
HandlePush(sb, k, data) ==
    IF Get(sb, k) = 0 THEN << >> ELSE << [cb |-> Get(sb, k), data |-> data] >>

\* a PushRouter that does not look at the channel
PushConsumesAnyChannel(msg) == msg.type = "push" /\ IsStr(msg.sub)

\* PushRouter.handle_message consumes the message (returns True)
PushConsumes(msg) == msg.type = "push" /\ IsStr(msg.sub) /\ IsStr(msg.chan)

\* PushRouter.handle_message: the calls of its handler
OnPush(msg) ==
    IF PushConsumes(msg)
      THEN << [sub |-> msg.sub, chan |-> msg.chan, data |-> msg.data] >>
      ELSE << >>

\* a rebinding that adds the new key and keeps the old one
RebindKeepsOld(sb, eid, e, r) ==
    IF r.st = "result" THEN Register(sb, r.data, e) ELSE Unregister(sb, eid[e])

\* resubscribe_all, one entry whose resend returned: the table afterwards
Rebind(sb, eid, e, r) ==
    IF r.st = "result"
      THEN IF eid[e] \in Keys(sb)
             THEN Register(Unregister(sb, eid[e]), r.data, e)
             ELSE sb
      ELSE Unregister(sb, eid[e])

\* clear(): the empty table
Clear(sb) == << >>

\* resubscribe_all, one entry whose resend returned: the id fields afterwards
RebindId(sb, eid, e, r) ==
    IF r.st = "result" /\ eid[e] \in Keys(sb)
      THEN [eid EXCEPT ![e] = r.data]
      ELSE eid

\* resubscribe_all, one entry whose resend returned: the callback invoked
\* with the initial data of the response
RebindCalls(sb, eid, e, r) ==
    IF r.st = "result" /\ eid[e] \in Keys(sb) /\ HasData(e)
      THEN << [cb |-> e, data |-> r.data] >>
      ELSE << >>

\* ======================================================== incoming messages

\* the server answers a (re)subscribe request it received on connection c
\* and has not answered yet
SubscribeDue(c, id) ==
    /\ reqFor[id] # 0
    /\ <<id, c>> \in sent
    /\ \A k \in DOMAIN srv : srv[k].req # id

\* the data the server puts into its response to request i
Payload(i) == ToString(i)

\* the ids a frame can carry: none, one that is no integer, JSON true, and
\* the integers the client may have allocated
FrameIds ==
    { <<0, "none">>, <<0, "other">>, <<1, "bool">> }
    \cup { <<i, "int">> : i \in 1..cfg.maxId }

\* the frames of a server that does not keep to the protocol: a push with
\* and without a string subscription id and channel, a ping and a welcome,
\* system frames, each with every id, and results whose id is no integer
AnyFrames ==
    { Frame("push", i[1], i[2], "p", "-", sc[1], sc[2], FALSE) :
        i \in FrameIds,
        sc \in { <<"s1", "event">>, <<"s1", "-">>, <<"s1", NotStr>>,
                 <<"-", "event">>, <<NotStr, "event">> } }
    \cup { Frame(t, i[1], i[2], "p", "-", "s1", "event", FALSE) :
             t \in {"ping", "welcome"}, i \in FrameIds }
    \cup { Frame("system", i[1], i[2], "session_revoked", r, "-", "-", FALSE) :
             i \in FrameIds, r \in cfg.revoke }
    \cup { Frame("system", 0, "none", "other", "-", "-", "-", FALSE) }
    \cup { Frame("result", i[1], i[2], "p", "-", "-", "-", FALSE) :
             i \in { j \in FrameIds : j[2] # "int" } }

\* the frames the server can send on connection c
ServerMsgs(c) ==
    { Msg("welcome", NoId, "-", "-", "-", a) : a \in {b \in BOOLEAN : c \notin welcomed} }
    \cup { Msg(t, i, Payload(i), "NOT_FOUND", "-", FALSE) :
             t \in cfg.resp \ {"result"},
             i \in { j \in Ids : <<j, c>> \in sent \/ j \notin DOMAIN pending } }
    \cup { Msg("result", i, Payload(i), "-", "-", FALSE) :
             i \in { j \in Ids : /\ "result" \in cfg.resp
                                 /\ reqFor[j] = 0
                                 /\ (<<j, c>> \in sent \/ j \notin DOMAIN pending) } }
    \cup { Msg("result", i, k, "-", "-", FALSE) :
             i \in { j \in Ids : SubscribeDue(c, j) },
             k \in SubIds \ DOMAIN srv }
    \cup { Msg("push", NoId, "p", "-", k, FALSE) :
             k \in { j \in DOMAIN srv : srv[j].c = c } }
    \cup { Msg("system", NoId, "session_revoked", r, "-", FALSE) :
             r \in cfg.revoke }
    \cup (IF cfg.frames = "any" THEN AnyFrames ELSE {})

\* _handle_system_message: the reason emitted with session_revoked
RevokedReason(msg) ==
    IF IsStr(msg.code) THEN msg.code ELSE "Session revoked by administrator"

RECURSIVE WelcomeWakes(_, _)
\* the tasks woken by a welcome frame: those awaiting a welcome future that
\* an invoked listener completes, in the order of the listener list
WelcomeWakes(l, i) ==
    IF i > Len(l) THEN << >>
    ELSE (IF i % 2 = 1 /\ l[i] \in Tasks /\ wfut[l[i]] = "waiting"
               /\ pc[l[i]] = "welcome"
            THEN << Tok("welcome", l[i], 0) >> ELSE << >>)
         \o WelcomeWakes(l, i + 2)

\* the receive task of connection c reads one frame: transport._emit runs
\* the client's _on_transport_message (RequestManager, then PushRouter, then
\* the system handler) and the welcome listeners of _perform_connect
Receive(c, msg) ==
    /\ c \in recv
    /\ IF RMConsumes(pending, msg)
         THEN /\ RMHandle(msg)
              /\ Emits(<< >>) /\ called' = << >> /\ routed' = << >>
              /\ UNCHANGED intentional
         ELSE IF PushConsumes(msg)
           THEN /\ routed' = OnPush(msg)
                /\ called' = HandlePush(subs, msg.sub, msg.data)
                /\ Emits(<< >>)
                /\ UNCHANGED << rmVars, intentional >>
         ELSE IF msg.type = "system" /\ msg.data = "session_revoked"
           THEN /\ intentional' = TRUE
                /\ Emits(<< Ev("session_revoked", RevokedReason(msg), 0) >>)
                /\ called' = << >> /\ routed' = << >>
                /\ UNCHANGED rmVars
         ELSE /\ Emits(<< >>) /\ called' = << >> /\ routed' = << >>
              /\ UNCHANGED << rmVars, intentional >>
    /\ rq' = rq \o (IF RMConsumes(pending, msg)
                      THEN Wake({ResponseKey(pending, msg)} \cap Rejected)
                      ELSE << >>)
               \o (IF msg.type = "welcome" THEN WelcomeWakes(wl, 1) ELSE << >>)
    /\ IF msg.type = "welcome"
         THEN /\ wfut' = [t \in Tasks |->
                            IF t \in InvokedListeners(wl) /\ wfut[t] = "waiting"
                              THEN IF msg.auth THEN "ok_auth" ELSE "ok_noauth"
                              ELSE wfut[t]]
              /\ wl' = RemainingListeners(wl)
              /\ welcomed' = welcomed \cup {c}
         ELSE UNCHANGED << wfut, wl, welcomed >>
    /\ IF msg.type = "result" /\ msg.idk = "int" /\ reqFor[msg.id] # 0
         THEN srv' = Put(srv, msg.data,
                         [e |-> reqFor[msg.id], req |-> msg.id, c |-> c])
         ELSE UNCHANGED srv
    /\ frame' = msg
    /\ last' = [op |-> "message",
                ret |-> IF RMConsumes(pending, msg) THEN "response"
                        ELSE IF PushConsumes(msg) THEN "push"
                        ELSE IF msg.type \in {"system", "welcome"} THEN msg.type
                        ELSE "ignored",
                code |-> msg.id]
    /\ UNCHANGED << cfg, state, reconnecting, abortEv, tstate, ws, recv, rtask,
                    conns, pc, login, attempt, discPc, snap, ri, rid, subs,
                    entryId, sstat, unsubCalls, reqFor, lostWith >>

\* ====================================================== connect / reconnect

\* RequestManager.send for the requests of types ts, in a row, whose
\* transport.send raises
RMSendFailMany(ts) ==
    LET n == Len(ts)
        new == nextId..(nextId + n - 1) IN
    /\ nextId' = nextId + n
    /\ timer' = timer \cup new
    /\ pending' = [i \in (DOMAIN pending) \cup new |->
                     IF i \in new THEN ts[i - nextId + 1] ELSE pending[i]]
    /\ fut' = [i \in Ids |-> IF i \in new THEN Waiting ELSE fut[i]]
    /\ sendFailed' = sendFailed \cup new
    /\ UNCHANGED << setCount, sent >>

\* _perform_connect up to its first suspension: register the welcome
\* listener, call transport.connect (which returns at once when the
\* transport is connected or connecting)
PerformConnectStart(t) ==
    /\ Len(wl) < MaxListeners
    /\ wl' = Append(wl, t)
    /\ wfut' = [wfut EXCEPT ![t] = "waiting"]
    /\ IF tstate \in {"connected", "connecting"}
         THEN /\ pc' = [pc EXCEPT ![t] = "welcome"]
              /\ UNCHANGED tstate
         ELSE /\ pc' = [pc EXCEPT ![t] = "tconnect"]
              /\ tstate' = "connecting"

\* an except branch that does not count the failed attempt
LoopFailSameAttempt == RunLoopTop(attempt)

\* the except branch of the loop's try: stay in reconnecting, next attempt
LoopFail == RunLoopTop(attempt + 1)

\* auto-login sends a request: the welcome requires auth and a token is
\* configured
NeedsLogin(w) == w = "ok_auth" /\ cfg.auth = "token"

\* the loop has resubscribed (or there was nothing to do): final check of
\* the intentional flag, the three events, return
LoopFinish(st) ==
    IF intentional
      THEN LoopBreak
      ELSE /\ state' = st
           /\ reconnecting' = FALSE
           /\ pc' = [pc EXCEPT !["loop"] = "idle"]
           /\ Emits(<< Ev("connected", "-", 0), Ev("reconnected", "-", 0),
                       Ev("welcome", "-", 0) >>)
           /\ UNCHANGED << abortEv, attempt >>

\* resubscribe_all from position i of snapshot sn, with table sb and the
\* client in state st: either the next resend suspends, or every remaining
\* resend raises at once (request refused, or transport.send raises) and
\* the remaining entries are dropped
Resub(sn, i, sb, st) ==
    LET rest == { entryId[sn[j]] : j \in i..Len(sn) }
        dropped == SelectSeq(sb, LAMBDA x : x.k \notin rest)
    IN
    IF i > Len(sn)
      THEN /\ subs' = sb
           /\ snap' = << >> /\ ri' = 0 /\ rid' = 0
           /\ UNCHANGED << rmVars, reqFor >>
           /\ LoopFinish(st)
    ELSE IF ~RequestAllowed(st)
      THEN /\ subs' = dropped
           /\ snap' = << >> /\ ri' = 0 /\ rid' = 0
           /\ UNCHANGED << rmVars, reqFor >>
           /\ LoopFinish(st)
    ELSE IF ~TransportCanSend
      THEN /\ nextId + (Len(sn) - i) <= cfg.maxId
           /\ RMSendFailMany([j \in 1..(Len(sn) - i + 1) |->
                                 SubscribeType(sn[i + j - 1])])
           /\ subs' = dropped
           /\ snap' = << >> /\ ri' = 0 /\ rid' = 0
           /\ UNCHANGED reqFor
           /\ LoopFinish(st)
    ELSE /\ nextId <= cfg.maxId
         /\ RMSend(SubscribeType(sn[i]))
         /\ reqFor' = [reqFor EXCEPT ![nextId] = sn[i]]
         /\ subs' = sb
         /\ snap' = sn /\ ri' = i /\ rid' = nextId
         /\ state' = st
         /\ pc' = [pc EXCEPT !["loop"] = "resub"]
         /\ Emits(<< >>)
         /\ UNCHANGED << reconnecting, abortEv, attempt >>

\* NoexClient.connect called by application code, up to the first
\* suspension of _perform_connect
Connect ==
    /\ pc["conn"] = "idle" /\ discPc = "idle" /\ state = "disconnected"
    /\ intentional' = FALSE
    /\ state' = "connecting"
    /\ PerformConnectStart("conn")
    /\ last' = Op("connect", "await")
    /\ Emits(<< >>) /\ called' = << >> /\ routed' = << >> /\ frame' = NoFrame
    /\ UNCHANGED << cfg, reconnecting, abortEv, ws, recv, rtask, conns, rq,
                    welcomed, rmVars, login, attempt, discPc, snap, ri, rid,
                    subVars >>

\* transport.connect: the websocket handshake of task t succeeds; the
\* transport becomes connected and a receive task is created
WsConnectOk(t) ==
    /\ pc[t] = "tconnect"
    /\ conns < MaxConns
    /\ conns' = conns + 1
    /\ ws' = conns + 1
    /\ rtask' = conns + 1
    /\ recv' = recv \cup {conns + 1}
    /\ tstate' = "connected"
    /\ srv' = [k \in { j \in DOMAIN srv : srv[j].c \in recv } |-> srv[k]]
    /\ pc' = [pc EXCEPT ![t] = "welcome"]
    /\ rq' = rq \o (IF wfut[t] = "waiting" THEN << >>
                      ELSE << Tok("welcome", t, 0) >>)
    /\ last' = Silent
    /\ Emits(<< >>) /\ called' = << >> /\ routed' = << >> /\ frame' = NoFrame
    /\ UNCHANGED << cfg, clVars, welcomed, wl, rmVars, wfut, login, attempt,
                    discPc, snap, ri, rid, subs, entryId, sstat, unsubCalls, reqFor,
                    lostWith >>

\* transport.connect of connect() fails (timeout or refused): the transport
\* is disconnected, _perform_connect removes its listener and re-raises,
\* connect() sets the state and re-raises
ConnWsFail ==
    /\ pc["conn"] = "tconnect"
    /\ tstate' = "disconnected"
    /\ wl' = RemoveListener(wl, "conn")
    /\ wfut' = [wfut EXCEPT !["conn"] = "none"]
    /\ state' = "disconnected"
    /\ pc' = [pc EXCEPT !["conn"] = "idle"]
    /\ last' = Op("connect", "raised")
    /\ Emits(<< >>) /\ called' = << >> /\ routed' = << >> /\ frame' = NoFrame
    /\ UNCHANGED << cfg, intentional, reconnecting, abortEv, ws, recv, rtask,
                    conns, welcomed, rmVars, login, attempt, discPc, snap, ri,
                    rid, subVars, rq >>

\* the welcome timer of _perform_connect fires
WelcomeTimeout(t) ==
    /\ pc[t] = "welcome" /\ wfut[t] = "waiting"
    /\ wfut' = [wfut EXCEPT ![t] = "timeout"]
    /\ wl' = Stale(wl, t)
    /\ rq' = Append(rq, Tok("welcome", t, 0))
    /\ last' = Silent
    /\ Emits(<< >>) /\ called' = << >> /\ routed' = << >> /\ frame' = NoFrame
    /\ UNCHANGED << cfg, clVars, tstate, ws, recv, rtask, conns, welcomed,
                    rmVars, pc, login, attempt, discPc, snap, ri, rid, subVars >>

ConnectedEvents == << Ev("connected", "-", 0), Ev("welcome", "-", 0) >>

\* connect() resumes from _perform_connect: on the timeout it sets
\* disconnected and re-raises; on the welcome it sets connected, runs
\* _auto_login and emits connected and welcome
ConnWelcomeResume ==
    /\ Head1(rq) = Tok("welcome", "conn", 0)
    /\ rq' = Tail(rq)
    /\ wfut' = [wfut EXCEPT !["conn"] = "none"]
    /\ IF wfut["conn"] = "timeout"
         THEN /\ state' = "disconnected"
              /\ pc' = [pc EXCEPT !["conn"] = "idle"]
              /\ last' = Op("connect", "raised")
              /\ Emits(<< >>)
              /\ UNCHANGED << rmVars, login >>
         ELSE IF NeedsLogin(wfut["conn"])
           THEN /\ nextId <= cfg.maxId
                /\ RMSend("auth.login")
                /\ state' = "connected"
                /\ Emits(<< >>)
                /\ IF TransportCanSend
                     THEN /\ pc' = [pc EXCEPT !["conn"] = "login"]
                          /\ login' = [login EXCEPT !["conn"] = nextId]
                          /\ last' = Op("connect", "await")
                     ELSE /\ pc' = [pc EXCEPT !["conn"] = "idle"]
                          /\ last' = Op("connect", "raised")
                          /\ UNCHANGED login
           ELSE /\ state' = "connected"
                /\ Emits(ConnectedEvents)
                /\ pc' = [pc EXCEPT !["conn"] = "idle"]
                /\ last' = Op("connect", "returned")
                /\ UNCHANGED << rmVars, login >>
    /\ called' = << >> /\ routed' = << >> /\ frame' = NoFrame
    /\ UNCHANGED << cfg, intentional, reconnecting, abortEv, trVars, attempt,
                    discPc, snap, ri, rid, subVars >>

\* connect() resumes from the auto-login request
ConnLoginResume ==
    /\ Head1(rq) = Tok("login", "conn", 0)
    /\ rq' = Tail(rq)
    /\ pc' = [pc EXCEPT !["conn"] = "idle"]
    /\ login' = [login EXCEPT !["conn"] = 0]
    /\ IF fut[login["conn"]].st = "result"
         THEN Emits(ConnectedEvents) /\ last' = Op("connect", "returned")
         ELSE Emits(<< >>) /\ last' = Op("connect", "raised")
    /\ called' = << >> /\ routed' = << >> /\ frame' = NoFrame
    /\ UNCHANGED << cfg, clVars, trVars, rmVars, wfut, attempt, discPc, snap,
                    ri, rid, subVars >>

\* the task of _handle_reconnect runs for the first time
LoopStart ==
    /\ Head1(rq) = Tok("loop", "-", 0)
    /\ rq' = Tail(rq)
    /\ RunLoopTop(0)
    /\ last' = Silent
    /\ called' = << >> /\ routed' = << >> /\ frame' = NoFrame
    /\ UNCHANGED << cfg, intentional, trVars, rmVars, wfut, login, discPc,
                    snap, ri, rid, subVars >>

\* the backoff wait of the loop ends: the delay elapsed, or the abort event
\* was set and the woken loop task is at the head of the queue; break when
\* intentional, else start _perform_connect
BackoffDone ==
    /\ pc["loop"] = "backoff"
    /\ IF AbortSignalled
         THEN Head1(rq) = Tok("abort", "-", 0) /\ rq' = Tail(rq)
         ELSE rq' = rq
    /\ IF intentional
         THEN LoopBreak /\ UNCHANGED << wl, wfut, tstate >>
         ELSE /\ PerformConnectStart("loop")
              /\ Emits(<< >>)
              /\ UNCHANGED << state, reconnecting, abortEv, attempt >>
    /\ last' = Silent
    /\ called' = << >> /\ routed' = << >> /\ frame' = NoFrame
    /\ UNCHANGED << cfg, intentional, ws, recv, rtask, conns, welcomed, rmVars,
                    login, discPc, snap, ri, rid, subVars >>

\* transport.connect of the loop's attempt fails
LoopWsFail ==
    /\ pc["loop"] = "tconnect"
    /\ tstate' = "disconnected"
    /\ wl' = RemoveListener(wl, "loop")
    /\ wfut' = [wfut EXCEPT !["loop"] = "none"]
    /\ LoopFail
    /\ last' = Silent
    /\ called' = << >> /\ routed' = << >> /\ frame' = NoFrame
    /\ UNCHANGED << cfg, intentional, ws, recv, rtask, conns, welcomed, rmVars,
                    login, discPc, snap, ri, rid, subVars, rq >>

\* the loop resumes from _perform_connect
LoopWelcomeResume ==
    /\ Head1(rq) = Tok("welcome", "loop", 0)
    /\ rq' = Tail(rq)
    /\ wfut' = [wfut EXCEPT !["loop"] = "none"]
    /\ IF wfut["loop"] = "timeout"
         THEN /\ LoopFail
              /\ last' = Silent
              /\ UNCHANGED << rmVars, login, snap, ri, rid, subs, reqFor >>
         ELSE IF intentional
           THEN /\ LoopBreak
                /\ last' = Silent
                /\ UNCHANGED << rmVars, login, snap, ri, rid, subs, reqFor >>
         ELSE IF NeedsLogin(wfut["loop"])
           THEN /\ nextId <= cfg.maxId
                /\ RMSend("auth.login")
                /\ UNCHANGED << snap, ri, rid, subs, reqFor >>
                /\ IF TransportCanSend
                     THEN /\ state' = "connected"
                          /\ pc' = [pc EXCEPT !["loop"] = "login"]
                          /\ login' = [login EXCEPT !["loop"] = nextId]
                          /\ Emits(<< >>)
                          /\ last' = Silent
                          /\ UNCHANGED << reconnecting, abortEv, attempt >>
                     ELSE /\ LoopFail
                          /\ last' = Silent
                          /\ UNCHANGED login
           ELSE /\ Resub(Values(subs), 1, subs, "connected")
                /\ last' = Silent
                /\ UNCHANGED login
    /\ called' = << >> /\ routed' = << >> /\ frame' = NoFrame
    /\ UNCHANGED << cfg, intentional, trVars, discPc, entryId, sstat, unsubCalls, srv,
                    lostWith >>

\* the loop resumes from the auto-login request
LoopLoginResume ==
    /\ Head1(rq) = Tok("login", "loop", 0)
    /\ rq' = Tail(rq)
    /\ login' = [login EXCEPT !["loop"] = 0]
    /\ IF fut[login["loop"]].st = "error"
         THEN /\ LoopFail
              /\ last' = Silent
              /\ UNCHANGED << rmVars, snap, ri, rid, subs, reqFor >>
         ELSE IF intentional
           THEN /\ LoopBreak
                /\ last' = Silent
                /\ UNCHANGED << rmVars, snap, ri, rid, subs, reqFor >>
         ELSE /\ Resub(Values(subs), 1, subs, state)
              /\ last' = Silent
    /\ called' = << >> /\ routed' = << >> /\ frame' = NoFrame
    /\ UNCHANGED << cfg, intentional, trVars, wfut, discPc, entryId, sstat, unsubCalls,
                    srv, lostWith >>

\* resubscribe_all resumes from the resend of entry snap[ri]: rebind or
\* drop the entry, then go on with the next one
ResubResume ==
    /\ Head1(rq) = Tok("resub", "-", 0)
    /\ rq' = Tail(rq)
    /\ entryId' = RebindId(subs, entryId, snap[ri], fut[rid])
    /\ called' = RebindCalls(subs, entryId, snap[ri], fut[rid])
    /\ routed' = << >> /\ frame' = NoFrame
    /\ Resub(snap, ri + 1, Rebind(subs, entryId, snap[ri], fut[rid]), state)
    /\ last' = Silent
    /\ UNCHANGED << cfg, intentional, trVars, wfut, login, discPc, sstat, unsubCalls, srv,
                    lostWith >>

\* ================================================================ disconnect

\* NoexClient.disconnect called by application code, up to the suspension
\* of transport.disconnect (it suspends only to await a running receive
\* task, which it has cancelled: the task reads no further frame)
Disconnect ==
    /\ discPc = "idle" /\ pc["conn"] = "idle"
    /\ intentional' = TRUE
    /\ abortEv' = IF abortEv = "none" THEN "none" ELSE "set"
    /\ RMRejectAll(DisconnectedError("Client disconnecting"))
    /\ subs' = Clear(subs)
    /\ IF tstate \in {"disconnected", "idle"}
         THEN /\ state' = "disconnected"
              /\ last' = Op("disconnect", "returned")
              /\ rq' = rq \o AbortWake \o Wake(Rejected)
              /\ UNCHANGED << tstate, ws, recv, rtask, discPc >>
         ELSE /\ tstate' = "disconnected"
              /\ IF rtask \in recv
                   THEN /\ recv' = recv \ {rtask}
                        /\ discPc' = "cancel"
                        /\ last' = Op("disconnect", "await")
                        /\ rq' = rq \o AbortWake \o Wake(Rejected)
                                    \o << Tok("cancelled", "-", 0) >>
                        /\ UNCHANGED << state, rtask, ws >>
                   ELSE /\ rtask' = 0
                        /\ ws' = 0
                        /\ state' = "disconnected"
                        /\ last' = Op("disconnect", "returned")
                        /\ rq' = rq \o AbortWake \o Wake(Rejected)
                        /\ UNCHANGED << recv, discPc >>
    /\ Emits(<< >>) /\ called' = << >> /\ routed' = << >> /\ frame' = NoFrame
    /\ UNCHANGED << cfg, reconnecting, conns, welcomed, wl, pc, wfut, login,
                    attempt, snap, ri, rid, entryId, sstat, unsubCalls, reqFor, srv,
                    lostWith >>

\* the cancelled receive task runs its finally block and ends, which wakes
\* disconnect()
RecvCancelled ==
    /\ Head1(rq) = Tok("cancelled", "-", 0)
    /\ rq' = Append(Tail(rq), Tok("disconnect", "-", 0))
    /\ tstate' = "disconnected"
    /\ ws' = 0
    /\ discPc' = "closing"
    /\ last' = Silent
    /\ Emits(<< >>) /\ called' = << >> /\ routed' = << >> /\ frame' = NoFrame
    /\ UNCHANGED << cfg, clVars, recv, rtask, conns, welcomed, wl, rmVars, pc,
                    wfut, login, attempt, snap, ri, rid, subVars >>

\* disconnect() resumes after the receive task has ended
DisconnectEnd ==
    /\ Head1(rq) = Tok("disconnect", "-", 0)
    /\ rq' = Tail(rq)
    /\ rtask' = 0
    /\ ws' = 0
    /\ state' = "disconnected"
    /\ discPc' = "idle"
    /\ last' = Op("disconnect", "returned")
    /\ Emits(<< >>) /\ called' = << >> /\ routed' = << >> /\ frame' = NoFrame
    /\ UNCHANGED << cfg, intentional, reconnecting, abortEv, tstate, recv,
                    conns, welcomed, wl, rmVars, pc, wfut, login, attempt,
                    snap, ri, rid, subVars >>

\* ================================================================= StoreAPI

\* store.subscribe or rules.subscribe called by application code for entry
\* e, up to the await of the request
Subscribe(e) ==
    /\ sstat[e] = "new"
    /\ nextId <= cfg.maxId
    /\ IF RequestAllowed(state)
         THEN /\ RMSend(SubscribeType(e))
              /\ reqFor' = [reqFor EXCEPT ![nextId] = e]
              /\ sstat' = [sstat EXCEPT ![e] =
                             IF TransportCanSend THEN "subscribing" ELSE "failed"]
              /\ last' = Op("subscribe",
                            IF TransportCanSend THEN "await" ELSE "ConnectionError")
         ELSE /\ sstat' = [sstat EXCEPT ![e] = "failed"]
              /\ last' = Op("subscribe", "DISCONNECTED")
              /\ UNCHANGED << rmVars, reqFor >>
    /\ Emits(<< >>) /\ called' = << >> /\ routed' = << >> /\ frame' = NoFrame
    /\ UNCHANGED << cfg, clVars, trVars, taskVars, subs, entryId, unsubCalls,
                    srv, rq, lostWith >>

\* the subscribe call resumes from the request id: register the entry under
\* the returned id; store.subscribe then delivers the initial data, and when
\* the callback raises it unregisters, schedules the unsubscribe request
\* and re-raises
SubscribeResume(id) ==
    LET e == reqFor[id] IN
    /\ Head1(rq) = Tok("sub", "-", id)
    /\ IF fut[id].st = "result"
         THEN /\ entryId' = [entryId EXCEPT ![e] = fut[id].data]
              /\ called' = IF HasData(e)
                             THEN << [cb |-> e, data |-> fut[id].data] >>
                             ELSE << >>
              /\ IF HasData(e) /\ <<e, "initial">> \in cfg.raising
                   THEN /\ subs' = Unregister(Register(subs, fut[id].data, e),
                                              fut[id].data)
                        /\ sstat' = [sstat EXCEPT ![e] = "failed"]
                        /\ rq' = Append(Tail(rq), Tok("unsub", "-", e))
                        /\ last' = Op("subscribe", "raised")
                   ELSE /\ subs' = Register(subs, fut[id].data, e)
                        /\ sstat' = [sstat EXCEPT ![e] = "active"]
                        /\ rq' = Tail(rq)
                        /\ last' = Op("subscribe", "returned")
         ELSE /\ sstat' = [sstat EXCEPT ![e] = "failed"]
              /\ called' = << >> /\ routed' = << >> /\ frame' = NoFrame
              /\ rq' = Tail(rq)
              /\ last' = Op("subscribe", "raised")
              /\ UNCHANGED << subs, entryId >>
    /\ Emits(<< >>)
    /\ routed' = << >> /\ frame' = NoFrame
    /\ UNCHANGED << cfg, clVars, trVars, rmVars, taskVars, unsubCalls, reqFor,
                    srv, lostWith >>

\* the subscription id that the closure unsub of entry e holds: the id that
\* the subscribe call of e got from the server
CapturedId(e) ==
    LET first == CHOOSE i \in Ids :
                   /\ reqFor[i] = e
                   /\ \A j \in Ids : reqFor[j] = e => i <= j
    IN fut[first].data

\* the request type of the unsubscribe request of entry e
UnsubscribeType(e) ==
    IF e % 2 = 1 THEN "store.unsubscribe" ELSE "rules.unsubscribe"

\* the unsubscribe function of entry e called by application code: unregister
\* the captured id and schedule the unsubscribe request as a task
Unsub(e) ==
    /\ sstat[e] = "active"
    /\ unsubCalls[e] < MaxUnsubCalls
    /\ unsubCalls' = [unsubCalls EXCEPT ![e] = @ + 1]
    /\ subs' = Unregister(subs, CapturedId(e))
    /\ rq' = Append(rq, Tok("unsub", "-", e))
    /\ last' = [op |-> "unsub", ret |-> "returned", code |-> e]
    /\ Emits(<< >>) /\ called' = << >> /\ routed' = << >> /\ frame' = NoFrame
    /\ UNCHANGED << cfg, clVars, trVars, rmVars, taskVars, entryId, sstat,
                    reqFor, srv, lostWith >>

\* the task made by _fire_and_forget runs: client.request for the
\* unsubscribe message of entry e, every exception swallowed; nobody awaits
\* the response
UnsubSend(e) ==
    /\ Head1(rq) = Tok("unsub", "-", e)
    /\ rq' = Tail(rq)
    /\ IF RequestAllowed(state)
         THEN /\ nextId <= cfg.maxId
              /\ RMSend(UnsubscribeType(e))
         ELSE UNCHANGED rmVars
    /\ last' = Silent
    /\ Emits(<< >>) /\ called' = << >> /\ routed' = << >> /\ frame' = NoFrame
    /\ UNCHANGED << cfg, clVars, trVars, taskVars, subVars >>

\* ============================================================ specification

\* the configuration of a run. What the server may send: the response
\* types, the reasons of a session_revoked system message ("-" is a message
\* without reason), the close frames. What the application has registered:
\* handlers (the handlers registered with on() for each event, TRUE for one
\* that raises) and raising (the subscription callbacks that raise: pairs
\* of an entry and the kind of call, "initial" for the initial data of
\* store.subscribe, "push" for handle_push, "resub" for resubscribe_all)
AllResponses == {"result", "error", "bogus"}

Configs ==
    [reconnect : {FALSE}, maxRetries : {0}, auth : {"none"},
     maxId : {MaxClientReqs}, resp : {{"result"}},
     revoke : {{"revoked", "-"}}, closes : {CloseEvents},
     handlers : {<< >>}, raising : {{}}, frames : {"protocol"}]
    \cup [reconnect : {TRUE}, maxRetries : 0..MaxRetriesCfg, auth : {"none"},
          maxId : {MaxClientReqs}, resp : {{"result"}},
          revoke : {{"revoked", "-"}}, closes : {CloseEvents},
     handlers : {<< >>}, raising : {{}}, frames : {"protocol"}]
    \cup [reconnect : {TRUE}, maxRetries : {MaxRetriesCfg}, auth : {"none"},
          maxId : {MaxClientReqs}, resp : {{"result"}},
          revoke : {{}}, closes : {CloseEvents},
     handlers : {<< >>}, raising : {{}}, frames : {"protocol"}]

ConfigsRM ==
    [reconnect : {FALSE}, maxRetries : {0}, auth : {"none"}, maxId : {MaxReqs},
     resp : {AllResponses}, revoke : {{}},
     closes : {{<<1001, "going_away">>}}, handlers : {<< >>}, raising : {{}}, frames : {"protocol"}]

ConfigsSub ==
    [reconnect : {TRUE}, maxRetries : {MaxRetriesCfg}, auth : {"none"},
     maxId : {MaxSubReqs}, resp : {{"result", "error"}}, revoke : {{}},
     closes : {{<<1001, "going_away">>}}, handlers : {<< >>}, raising : {{}}, frames : {"protocol"}]

ConfigsUnsub ==
    [reconnect : {TRUE}, maxRetries : {MaxRetriesCfg}, auth : {"none"},
     maxId : {MaxSubReqs}, resp : {{"result"}}, revoke : {{}},
     closes : {{<<1001, "going_away">>}}, handlers : {<< >>}, raising : {{}}, frames : {"protocol"}]

ConfigsLife ==
    [reconnect : {TRUE}, maxRetries : {MaxRetriesCfg + 1}, auth : {"none"},
     maxId : {MaxLifeReqs}, resp : {{"result"}}, revoke : {{}},
     closes : {{<<1001, "going_away">>}}, handlers : {<< >>}, raising : {{}}, frames : {"protocol"}]

ConfigsAuth ==
    [reconnect : BOOLEAN, maxRetries : {MaxRetriesCfg}, auth : {"token"},
     maxId : {MaxAuthReqs}, resp : {{"result", "error"}}, revoke : {{}},
     closes : {{<<1001, "going_away">>}}, handlers : {<< >>}, raising : {{}}, frames : {"protocol"}]

ConfigsDispatch ==
    [reconnect : {TRUE}, maxRetries : {MaxRetriesCfg}, auth : {"none"},
     maxId : {MaxSubReqs}, resp : {{"result"}}, revoke : {{}},
     closes : {{<<1001, "going_away">>}},
     handlers : { hs \in [1..MaxHandlers -> BOOLEAN] :
                    Cardinality({ i \in 1..MaxHandlers : hs[i] }) = 1 },
     raising : { {<<1, "push">>, <<1, "resub">>}, {<<1, "initial">>} },
     frames : {"protocol"}]

ConfigsFrames ==
    [reconnect : {FALSE}, maxRetries : {0}, auth : {"none"},
     maxId : {MaxFrameReqs}, resp : {{"result"}},
     revoke : {{"revoked"}},
     closes : {{<<1001, "going_away">>}}, handlers : {<< >>}, raising : {{}},
     frames : {"any"}]

\* ReconnectOptions: max_retries, backoff as <<initial_delay_ms,
\* max_delay_ms, backoff_multiplier>>, the multiplier given as a float or
\* as an int, jitter_ms
ConfigsDelay ==
    [reconnect : {TRUE}, maxRetries : {0, 3, Infinity}, auth : {"none"},
     maxId : {MaxClientReqs}, resp : {{"result"}}, revoke : {{}},
     closes : {{<<1001, "going_away">>}}, handlers : {<< >>}, raising : {{}},
     frames : {"protocol"},
     backoff : { <<100, 100000, 2>>, <<1000, 5000, 10>>, <<1000, 30000, 2>> },
     floatMult : BOOLEAN, jitter : {0, MaxJitter}]

InitWith(c) ==
    /\ cfg = c
    /\ state = "disconnected" /\ intentional = FALSE /\ reconnecting = FALSE
    /\ abortEv = "none"
    /\ tstate = "idle" /\ ws = 0 /\ recv = {} /\ rtask = 0 /\ conns = 0
    /\ welcomed = {} /\ wl = << >>
    /\ nextId = 1 /\ pending = EmptyMap /\ timer = {}
    /\ fut = [i \in Ids |-> NoFut]
    /\ setCount = [i \in Ids |-> 0]
    /\ sendFailed = {} /\ sent = {}
    /\ pc = [t \in Tasks |-> "idle"]
    /\ wfut = [t \in Tasks |-> "none"]
    /\ login = [t \in Tasks |-> 0]
    /\ attempt = 0 /\ discPc = "idle"
    /\ snap = << >> /\ ri = 0 /\ rid = 0
    /\ subs = << >>
    /\ entryId = [e \in Entries |-> "-"]
    /\ sstat = [e \in Entries |-> "new"]
    /\ reqFor = [i \in Ids |-> 0]
    /\ srv = EmptyMap /\ lostWith = {}
    /\ unsubCalls = [e \in Entries |-> 0]
    /\ called = << >> /\ emitted = << >> /\ invoked = << >>
    /\ routed = << >> /\ frame = NoFrame
    /\ last = Op("init", "-")
    /\ rq = << >>

Init == \E c \in Configs : InitWith(c)

InitRM == \E c \in ConfigsRM : InitWith(c)

InitSub == \E c \in ConfigsSub : InitWith(c)

InitUnsub == \E c \in ConfigsUnsub : InitWith(c)

InitLife == \E c \in ConfigsLife : InitWith(c)

InitAuth == \E c \in ConfigsAuth : InitWith(c)

InitDispatch == \E c \in ConfigsDispatch : InitWith(c)

InitFrames == \E c \in ConfigsFrames : InitWith(c)

InitDelay == \E c \in ConfigsDelay : InitWith(c)

\* the steps of the network and the server
Network ==
    \/ \E c \in 1..MaxConns : \E msg \in ServerMsgs(c) : Receive(c, msg)
    \/ \E c \in 1..MaxConns : \E ce \in cfg.closes : RecvClose(c, ce[1], ce[2])
    \/ \E t \in Tasks : WsConnectOk(t)
    \/ \E t \in Tasks : WelcomeTimeout(t)

\* connect() and disconnect() and their resumptions
Lifecycle ==
    \/ Connect
    \/ ConnWsFail
    \/ ConnWelcomeResume
    \/ Disconnect
    \/ RecvCancelled
    \/ DisconnectEnd

\* the task of _handle_reconnect
Loop ==
    \/ LoopStart
    \/ BackoffDone
    \/ LoopWsFail
    \/ LoopWelcomeResume

\* an application that sends requests, with and without reconnect
Next ==
    \/ Request
    \/ \E id \in Ids : HandleTimeout(id)
    \/ \E c \in 1..MaxConns : RecvError(c)
    \/ Network
    \/ Lifecycle
    \/ Loop

Spec == Init /\ [][Next]_vars

\* an application that sends requests, reconnect disabled
NextRM ==
    \/ Request
    \/ \E id \in Ids : HandleTimeout(id)
    \/ \E c \in 1..MaxConns : RecvError(c)
    \/ Network
    \/ Lifecycle

SpecRM == InitRM /\ [][NextRM]_vars

\* an application that connects once, subscribes and stays; reconnect enabled
NextSub ==
    \/ \E e \in Entries : Subscribe(e)
    \/ \E id \in Ids : SubscribeResume(id)
    \/ Network
    \/ Connect
    \/ ConnWsFail
    \/ ConnWelcomeResume
    \/ Loop
    \/ ResubResume

SpecSub == InitSub /\ [][NextSub]_vars

\* the same application, which also calls the unsubscribe functions, with
\* a server that answers every request with a result and a network on
\* which every handshake and every welcome arrive
NextUnsub ==
    \/ \E e \in Entries : Subscribe(e)
    \/ \E id \in Ids : SubscribeResume(id)
    \/ \E e \in Entries : Unsub(e)
    \/ \E e \in Entries : UnsubSend(e)
    \/ \E c \in 1..MaxConns : \E msg \in ServerMsgs(c) : Receive(c, msg)
    \/ \E c \in 1..MaxConns : \E ce \in cfg.closes : RecvClose(c, ce[1], ce[2])
    \/ \E t \in Tasks : WsConnectOk(t)
    \/ Connect
    \/ ConnWelcomeResume
    \/ LoopStart
    \/ BackoffDone
    \/ LoopWelcomeResume
    \/ ResubResume

SpecUnsub == InitUnsub /\ [][NextUnsub]_vars

\* an application with one store subscription that connects, disconnects
\* and connects again at any time, reconnect enabled
NextLife ==
    \/ Subscribe(1)
    \/ \E id \in Ids : SubscribeResume(id)
    \/ \E id \in Ids : HandleTimeout(id)
    \/ Network
    \/ Lifecycle
    \/ Loop
    \/ ResubResume

SpecLife == InitLife /\ [][NextLife]_vars

\* an application configured with an auth token: connect() and the
\* reconnect loop log in when the welcome requires it
NextAuth ==
    \/ \E id \in Ids : HandleTimeout(id)
    \/ Network
    \/ Lifecycle
    \/ ConnLoginResume
    \/ Loop
    \/ LoopLoginResume

SpecAuth == InitAuth /\ [][NextAuth]_vars

\* an application that has registered event handlers and subscribes with
\* callbacks, some of which raise; the server answers with results and
\* every handshake and welcome arrive
NextDispatch ==
    \/ \E e \in Entries : Subscribe(e)
    \/ \E id \in Ids : SubscribeResume(id)
    \/ \E e \in Entries : UnsubSend(e)
    \/ \E c \in 1..MaxConns : \E msg \in ServerMsgs(c) : Receive(c, msg)
    \/ \E c \in 1..MaxConns : \E ce \in cfg.closes : RecvClose(c, ce[1], ce[2])
    \/ \E t \in Tasks : WsConnectOk(t)
    \/ Connect
    \/ ConnWelcomeResume
    \/ LoopStart
    \/ BackoffDone
    \/ LoopWsFail
    \/ LoopWelcomeResume
    \/ ResubResume

SpecDispatch == InitDispatch /\ [][NextDispatch]_vars

\* an application that sends requests and subscribes, and a server that may
\* send any frame; reconnect disabled
NextFrames ==
    \/ Request
    \/ Subscribe(1)
    \/ \E id \in Ids : SubscribeResume(id)
    \/ \E id \in Ids : HandleTimeout(id)
    \/ \E c \in 1..MaxConns : \E msg \in ServerMsgs(c) : Receive(c, msg)
    \/ \E c \in 1..MaxConns : \E ce \in cfg.closes : RecvClose(c, ce[1], ce[2])
    \/ \E t \in Tasks : WsConnectOk(t)
    \/ Connect
    \/ ConnWelcomeResume

SpecFrames == InitFrames /\ [][NextFrames]_vars

\* the attempts get_delay is called with: the first ones, and those around
\* the limit of the float power
Attempts ==
    0..MaxAttempt
    \cup { PowLimit(cfg.backoff[3], TRUE) - 1, PowLimit(cfg.backoff[3], TRUE) }

\* an orchestrator that calls get_delay with any attempt, in any order
NextDelay ==
    \E a \in Attempts : \E u \in JitterDraws(cfg.jitter) : GetDelay(a, u)

SpecDelay == InitDelay /\ [][NextDelay]_vars

\* =================================================================== claims

\* C1: a response message with id k resolves or fails only the request that
\* was sent with id k, with the outcome and the data of a response to k;
\* every other pending request keeps its future, its table entry and its
\* timer, so its own response is still consumed when it arrives.
C1_ResponseOnlyOwnRequest ==
    [][(last'.op = "message" /\ last'.ret = "response")
       => /\ \A i \in Ids \ {last'.code} :
               /\ fut'[i] = fut[i]
               /\ setCount'[i] = setCount[i]
               /\ (i \in timer <=> i \in timer')
               /\ i \in DOMAIN pending
                    => /\ i \in DOMAIN pending' /\ pending'[i] = pending[i]
                       /\ RMConsumes(pending', Msg("result", i, Payload(i),
                                                   "-", "-", FALSE))
          /\ last'.code \in DOMAIN pending
          /\ fut[last'.code] = Waiting
          /\ fut'[last'.code] \in
               { ResponseOutcome(Msg(t, last'.code, Payload(last'.code),
                                     "NOT_FOUND", "-", FALSE)) :
                   t \in AllResponses }]_vars

\* C1 witness: three requests were in flight together; the responses for 2
\* and 3 have arrived, each completing its own request with its own data,
\* while request 1 is still pending and untouched
C1_Witness ==
    /\ fut[1] = Waiting /\ 1 \in DOMAIN pending
    /\ fut[2] = NoexClientError("NOT_FOUND", Payload(2))
    /\ fut[3] = Result(Payload(3))
    /\ \E c \in 1..MaxConns : {<<1, c>>, <<2, c>>, <<3, c>>} \subseteq sent

\* C2: each pending request is completed at most once, whichever of the
\* three exit paths (response, timeout, reject_all) comes first: a future is
\* set exactly once, a completed request has left the pending table, and no
\* timer stays scheduled for a completed request or for an id that is not
\* in the table, so none fires afterwards.
C2_CompletedAtMostOnce ==
    \A i \in Ids :
        /\ setCount[i] <= 1
        /\ (fut[i].st \in {"result", "error"} <=> setCount[i] = 1)
        /\ fut[i].st \in {"result", "error"}
             => (i \notin DOMAIN pending /\ i \notin timer)
        /\ i \in timer => i \in DOMAIN pending

\* C2 witness: three requests have left by the three paths, the first by
\* its response, the second by its timeout, the third by reject_all
C2_Witness ==
    /\ fut[1].st = "result" /\ fut[2].code = "TIMEOUT"
    /\ fut[3].code = "DISCONNECTED"
    /\ \A i \in 1..3 : setCount[i] = 1
    /\ pending = EmptyMap /\ timer = {}

\* C3: the timeout of a request that is still waiting fails it with a
\* RequestTimeoutError (code TIMEOUT) that names the request's type and id
\* and removes its entry; a response with the id of a timed-out request is
\* not consumed by handle_message and changes nothing of the request
\* manager, of the subscription table or of the client state.
C3_TimeoutThenLateResponse ==
    [][/\ \A id \in Ids :
            (HandleTimeout(id) /\ id \in DOMAIN pending /\ fut[id] = Waiting)
            => /\ fut'[id] = RequestTimeoutError(pending[id], id)
               /\ fut'[id].code = "TIMEOUT"
               /\ id \notin DOMAIN pending' /\ id \notin timer'
       /\ (/\ last'.op = "message" /\ last'.code # NoId
           /\ fut[last'.code].code = "TIMEOUT")
          => /\ last'.ret = "ignored"
             /\ UNCHANGED << rmVars, clVars, subs, entryId >>
             /\ called' = << >> /\ emitted' = << >>]_vars

\* C3 witness: request 1 was sent, timed out, and its response arrived
\* afterwards and was ignored
C3_Witness ==
    /\ fut[1] = RequestTimeoutError("op", 1)
    /\ 1 \notin DOMAIN pending
    /\ \E c \in 1..MaxConns : <<1, c>> \in sent
    /\ last = [op |-> "message", ret |-> "ignored", code |-> 1]

\* C4: a call of reject_all(error) (disconnect() with "Client
\* disconnecting", an unintentional close with "Connection lost") leaves
\* the pending table empty and fails every request that was pending at the
\* call with that error, exactly once: none stays unresolved, none is set
\* twice, and the requests completed before keep their outcome.
C4_RejectAllFailsEachOnce ==
    [][LET Rejects(text) ==
             /\ pending' = EmptyMap
             /\ \A i \in DOMAIN pending :
                   /\ fut[i] = Waiting
                   /\ fut'[i] = DisconnectedError(text)
                   /\ setCount[i] = 0 /\ setCount'[i] = 1
             /\ \A i \in Ids \ DOMAIN pending :
                   fut'[i] = fut[i] /\ setCount'[i] = setCount[i]
       IN
       /\ Disconnect => Rejects("Client disconnecting")
       /\ (last'.op = "close" /\ ~intentional) => Rejects("Connection lost")]_vars

\* C4 witness: request 1 got its response, then requests 2 and 3 were
\* pending together when the connection was lost
C4_Witness ==
    /\ fut[1].st = "result"
    /\ fut[2] = DisconnectedError("Connection lost")
    /\ fut[3] = DisconnectedError("Connection lost")
    /\ pending = EmptyMap
    /\ last.op = "close"

\* C5: request() called while the client state is disconnected, connecting
\* or reconnecting raises DisconnectedError at once: no id is allocated, no
\* pending entry or timer is created, no future is made, nothing is sent.
C5_RequestRefusedUnlessConnected ==
    [][(last'.op = "request"
          /\ state \in {"disconnected", "connecting", "reconnecting"})
       => /\ last' = Op("request", "DISCONNECTED")
          /\ UNCHANGED << nextId, pending, timer, fut, setCount, sent,
                          sendFailed >>]_vars

\* C5 witness: request() was refused while the reconnect loop was waiting
\* in its backoff, after an earlier request had been accepted
C5_Witness ==
    /\ last = Op("request", "DISCONNECTED")
    /\ state = "reconnecting" /\ pc["loop"] = "backoff"
    /\ nextId = 2

\* C6: disconnect() sets the intentional flag, only connect() clears it,
\* and while it is set no step starts a reconnect loop and no step emits a
\* reconnecting event, whatever the reconnect configuration and also when
\* a transport close is handled after disconnect().
C6_NoReconnectAfterDisconnect ==
    [][/\ last'.op = "disconnect" => intentional'
       /\ (intentional /\ ~intentional') => last' = Op("connect", "await")
       /\ intentional
            => /\ reconnecting' => reconnecting
               /\ pc'["loop"] = "start" => pc["loop"] = "start"
               /\ \A i \in 1..Len(emitted') :
                     emitted'[i].name # "reconnecting"]_vars

\* C6 witness: reconnect is enabled, the server never revokes the session,
\* disconnect() was called, and a close of the transport was handled
\* afterwards: it gave the disconnected event and started no loop
C6_Witness ==
    /\ cfg.reconnect /\ cfg.revoke = {}
    /\ intentional
    /\ last.op = "close"
    /\ emitted = << Ev("disconnected", last.ret, 0) >>
    /\ ~reconnecting /\ pc["loop"] = "idle" /\ state = "disconnected"

\* C7: after the transport has closed with a non-retryable close code
\* (1003, 4002, 4003) while reconnect is enabled, the client is in state
\* disconnected, has emitted exactly one disconnected event with the close
\* reason, and no reconnect loop runs that could emit reconnecting.
C7_NonRetryableCloseDisconnects ==
    (last.op = "close" /\ last.code \in NonRetryableCodes /\ cfg.reconnect)
    => /\ state = "disconnected"
       /\ emitted = << Ev("disconnected", last.ret, 0) >>
       /\ ~reconnecting /\ pc["loop"] = "idle"

C9_CloseFailsPendingNoRetry ==
    [][/\ (last'.op = "close" /\ ~intentional)
          => /\ pending' = EmptyMap
             /\ \A i \in DOMAIN pending :
                   fut[i] = Waiting
                   /\ fut'[i] = DisconnectedError("Connection lost")
       /\ \A x \in sent' \ sent : x[1] = nextId /\ nextId' = nextId + 1]_vars

\* C9 witness: request 1 was sent on connection 1 and failed with
\* "Connection lost"; the client has reconnected on connection 2 and
\* request 1 was not sent there
C9_Witness ==
    /\ fut[1] = DisconnectedError("Connection lost")
    /\ <<1, 1>> \in sent /\ <<1, 2>> \notin sent
    /\ \E i \in 1..Len(emitted) : emitted[i].name = "reconnected"
    /\ state = "connected" /\ ws = 2 /\ tstate = "connected"
    /\ pending = EmptyMap

\* C10: when the reconnect loop reports success (reconnected emitted, the
\* new connection alive, every resend answered with a result), every
\* subscription that was in the table when the connection was lost is in
\* the table under the id the new server assigned to it, and a push for
\* that id reaches its callback.
C10_SubscriptionsRestored ==
    (/\ \E i \in 1..Len(emitted) : emitted[i].name = "reconnected"
     /\ tstate = "connected" /\ ws \in recv
     /\ sendFailed = {}
     /\ \A i \in Ids : fut[i].st # "error")
    => \A e \in lostWith :
         \E k \in DOMAIN srv :
            /\ srv[k].c = ws /\ srv[k].e = e
            /\ Get(subs, k) = e
            /\ HandlePush(subs, k, "p") = << [cb |-> e, data |-> "p"] >>

\* C11: resubscribe_all on a table with one entry keyed by an old id, whose
\* resend returns a new id (and initial data): the resend is one request of
\* the entry's stored type for the entry's payload, and when it has returned
\* the table holds that entry under the new id only, the old id routes to
\* nothing, the entry's id field is the new id, the callback is invoked once
\* with the returned data, and no other request is sent.
C11_ResubscribeOneEntry ==
    [][ /\ ( /\ pc["loop"] # "resub" /\ pc'["loop"] = "resub"
             /\ Len(snap') = 1 )
           => /\ nextId' = nextId + 1
              /\ rid' = nextId
              /\ pending'[nextId] = SubscribeType(snap'[1])
              /\ reqFor'[nextId] = snap'[1]
        /\ ( /\ Head1(rq) = Tok("resub", "-", 0) /\ rq' = Tail(rq)
             /\ Len(snap) = 1
             /\ fut[rid].st = "result"
             /\ subs = << [k |-> entryId[snap[1]], e |-> snap[1]] >> )
           => LET e == snap[1]
                  old == entryId[e]
                  new == fut[rid].data
              IN /\ subs' = << [k |-> new, e |-> e] >>
                 /\ (new # old => Get(subs', old) = 0)
                 /\ Get(subs', new) = e
                 /\ entryId'[e] = new
                 /\ HasData(e) => called' = << [cb |-> e, data |-> new] >>
                 /\ nextId' = nextId
                 /\ pc'["loop"] = "idle"
      ]_vars

\* C11 witness: the single entry of the table has just been rebound from
\* its old id to a different new id and its callback has been invoked
C11_Witness ==
    /\ Len(subs) = 1
    /\ \E e \in Entries :
         /\ subs[1] = [k |-> entryId[e], e |-> e]
         /\ called = << [cb |-> e, data |-> entryId[e]] >>
         /\ \E i, j \in Ids :
              /\ i < j /\ reqFor[i] = e /\ reqFor[j] = e
              /\ fut[i].st = "result" /\ fut[j].st = "result"
              /\ fut[i].data # fut[j].data /\ fut[j].data = entryId[e]
    /\ pc["loop"] = "idle" /\ state = "connected"
    /\ \E i \in 1..Len(emitted) : emitted[i].name = "reconnected"

\* C12: once the unsubscribe function of a subscription has been called, no
\* push that arrives later invokes that subscription's callback; and the
\* call removes no other subscription from the table, so that the other
\* active subscriptions keep receiving their pushes.
C12_UnsubscribedGetsNoPush ==
    [][ /\ (last'.op = "message" /\ last'.ret = "push")
           => \A i \in 1..Len(called') : unsubCalls[called'[i].cb] = 0
        /\ last'.op = "unsub"
           => \A k \in Keys(subs) :
                 Get(subs, k) # last'.code => Get(subs', k) = Get(subs, k)
      ]_vars

\* C13: unsubscribing is idempotent: a call of an unsubscribe function whose
\* id is not in the table, and every call of an unsubscribe function after
\* its first one, returns without raising and leaves the subscription
\* table exactly as it was.
C13_UnsubscribeIdempotent ==
    [][ last'.op = "unsub"
          => /\ last'.ret = "returned"
             /\ CapturedId(last'.code) \notin Keys(subs) => subs' = subs
             /\ unsubCalls[last'.code] >= 1 => subs' = subs
      ]_vars

\* C14: disconnect() never raises; the call fails every request that is
\* pending with DisconnectedError("Client disconnecting") and empties the
\* pending table; on return the state is disconnected, the subscription
\* table is empty and the transport is neither connected nor connecting;
\* called again in that situation it returns at once and changes nothing.
C14_DisconnectLeavesClientDisconnected ==
    [][ last'.op = "disconnect"
          => /\ last'.ret \in {"await", "returned"}
             /\ discPc = "idle"
                  => /\ pending' = EmptyMap
                     /\ \A i \in DOMAIN pending :
                          fut[i].st = "waiting"
                            => fut'[i] = DisconnectedError("Client disconnecting")
             /\ last'.ret = "returned"
                  => /\ state' = "disconnected"
                     /\ subs' = << >>
                     /\ tstate' \notin {"connected", "connecting"}
             /\ ( /\ discPc = "idle" /\ state = "disconnected" /\ intentional
                  /\ pending = EmptyMap /\ subs = << >>
                  /\ tstate \notin {"connected", "connecting"} )
                  => /\ last'.ret = "returned"
                     /\ UNCHANGED << state, intentional, reconnecting, trVars,
                                     rmVars, subVars, taskVars >>
                     /\ emitted' = << >>
      ]_vars

\* C15: whenever connect() raises, whichever of its steps failed (the
\* physical connect, the wait for the welcome, the auto-login), the client
\* state is disconnected when the exception reaches the caller.
C15_ConnectRaisesDisconnected ==
    last = Op("connect", "raised") => state = "disconnected"

\* C16: a connect() that returns leaves the state connected and emits, in
\* the step in which it returns, connected and then welcome, once each; it
\* returns only after the auto-login request (sent when the welcome requires
\* auth and a token is configured) has been answered with a result; while
\* it is suspended or when it raises it emits nothing.
C16_ConnectSucceeds ==
    [][ last'.op = "connect"
          => IF last'.ret = "returned"
               THEN /\ state' = "connected"
                    /\ emitted' = << Ev("connected", "-", 0), Ev("welcome", "-", 0) >>
                    /\ pc["conn"] = "welcome" => ~NeedsLogin(wfut["conn"])
                    /\ pc["conn"] = "login" => fut[login["conn"]].st = "result"
                    /\ pc["conn"] \in {"welcome", "login"}
                    /\ pc'["conn"] = "idle" /\ login'["conn"] = 0
               ELSE emitted' = << >>
      ]_vars

C18_DisconnectAbortsBackoff ==
    [][ /\ ( /\ last'.op = "disconnect" /\ discPc = "idle"
             /\ pc["loop"] = "backoff" /\ abortEv = "clear" )
           => /\ abortEv' = "set"
              /\ \E i \in 1..Len(rq') : rq'[i] = Tok("abort", "-", 0)
              /\ pc'["loop"] = "backoff"
        /\ ( /\ pc["loop"] = "backoff" /\ pc'["loop"] # "backoff"
             /\ abortEv = "set" )
           => /\ pc'["loop"] = "idle"
              /\ state' = "disconnected"
              /\ ~reconnecting'
              /\ emitted' = << >>
              /\ UNCHANGED << wl, tstate, conns >>
      ]_vars

\* C19: a reconnect attempt that succeeds emits connected, reconnected and
\* welcome, once each and in this order, in the step in which the loop
\* ends; at that step no resend of resubscribe_all is still awaited (the
\* resend of every entry of the snapshot has returned or raised), the
\* state is connected and the loop is no longer running.
C19_ReconnectSucceeds ==
    [][ (\E i \in 1..Len(emitted') : emitted'[i].name = "reconnected")
          => /\ emitted' = << Ev("connected", "-", 0), Ev("reconnected", "-", 0),
                              Ev("welcome", "-", 0) >>
             /\ pc["loop"] \in {"welcome", "login", "resub"}
             /\ pc["loop"] = "resub" => fut[rid].st \notin {"none", "waiting"}
             /\ snap' = << >> /\ rid' = 0
             /\ pc'["loop"] = "idle" /\ ~reconnecting'
             /\ state' = "connected"
      ]_vars

\* C20: a callback that raises does not stop the dispatch. For every event
\* emitted, every registered handler is invoked, in registration order,
\* also after a handler that raised, and the emitting code goes on (a
\* connect() that emits returns normally, a loop that emits reconnected
\* ends normally). A subscription callback that raises in handle_push leaves
\* the table, the receive task and the queue of woken tasks as they were;
\* one that raises in resubscribe_all leaves its entry with the new id and
\* resubscribe_all goes on to resend the next entry of the snapshot.
C20_RaisingCallbackIsolated ==
    [][ LET n == Len(cfg.handlers) IN
        /\ Len(invoked') = Len(emitted') * n
        /\ \A j \in 1..Len(emitted') : \A h \in 1..n :
              invoked'[(j - 1) * n + h] =
                [ev |-> emitted'[j].name, h |-> h, raised |-> cfg.handlers[h]]
        /\ (last'.op = "connect" /\ emitted' # << >>) => last'.ret = "returned"
        /\ (\E i \in 1..Len(emitted') : emitted'[i].name = "reconnected")
              => pc'["loop"] = "idle" /\ ~reconnecting'
        /\ ( /\ last'.op = "message" /\ last'.ret = "push"
             /\ called' # << >>
             /\ <<called'[1].cb, "push">> \in cfg.raising )
              => /\ subs' = subs /\ rq' = rq /\ recv' = recv
                 /\ entryId' = entryId
        /\ ( /\ Head1(rq) = Tok("resub", "-", 0) /\ rq' = Tail(rq)
             /\ called' # << >>
             /\ <<called'[1].cb, "resub">> \in cfg.raising )
              => /\ entryId'[called'[1].cb] = fut[rid].data
                 /\ IF ri < Len(snap)
                      THEN /\ RequestAllowed(state) => nextId' > nextId
                           /\ (RequestAllowed(state) /\ TransportCanSend)
                                => /\ rid' = nextId
                                   /\ reqFor'[nextId] = snap[ri + 1]
                      ELSE pc'["loop"] = "idle"
      ]_vars

\* C20 witness: the first of two handlers raises and the second has been
\* invoked after it for each of the events connected, reconnected, welcome,
\* emitted by a resubscribe_all in which a callback raised
C20_Witness ==
    /\ Len(cfg.handlers) >= 2 /\ cfg.handlers[1]
    /\ Len(emitted) = 3 /\ emitted[2].name = "reconnected"
    /\ invoked[1].raised /\ invoked[2] = [ev |-> "connected", h |-> 2, raised |-> FALSE]
    /\ called # << >> /\ <<called[1].cb, "resub">> \in cfg.raising

\* C21: handle_push(id, data) invokes the callback of the entry that is
\* registered under that id at that moment, exactly once and with the given
\* data, and no other callback; for an id without entry it invokes nothing.
\* In both cases nothing is raised (the receive task goes on, no task is
\* woken) and the table and the id fields of the entries stay as they were.
C21_HandlePushOwnCallbackOnce ==
    [][(last'.op = "message" /\ last'.ret = "push")
       => \A c \in 1..MaxConns, k \in SubIds :
            (/\ Msg("push", NoId, "p", "-", k, FALSE) \in ServerMsgs(c)
             /\ Receive(c, Msg("push", NoId, "p", "-", k, FALSE)))
            => /\ subs' = subs /\ entryId' = entryId
               /\ recv' = recv /\ rq' = rq /\ tstate' = tstate
               /\ IF \E i \in 1..Len(subs) : subs[i].k = k
                    THEN /\ Cardinality({ i \in 1..Len(subs) : subs[i].k = k }) = 1
                         /\ \E i \in 1..Len(subs) :
                              /\ subs[i].k = k
                              /\ called' = << [cb |-> subs[i].e, data |-> "p"] >>
                    ELSE called' = << >>]_vars

\* C21 witness: two subscriptions are in the table, and a push for the id
\* of the second one has just been delivered to its callback alone
C21_Witness ==
    /\ last.op = "message" /\ last.ret = "push"
    /\ Len(subs) = 2
    /\ called = << [cb |-> subs[2].e, data |-> "p"] >>

\* C22: PushRouter.handle_message calls the push handler, once and with the
\* frame's subscriptionId, channel and data, and returns true (the frame goes
\* no further down the dispatch chain) exactly when the frame's type is
\* "push" and its subscriptionId and its channel are both strings; for every
\* other frame the handler is not called, no subscription callback runs and
\* the frame is not counted as a push.
C22_PushRouterRoutesExactlyPushes ==
    [][last'.op = "message"
       => IF /\ frame'.type = "push"
             /\ frame'.sub \notin {"-", NotStr}
             /\ frame'.chan \notin {"-", NotStr}
            THEN /\ routed' = << [sub |-> frame'.sub, chan |-> frame'.chan,
                                  data |-> frame'.data] >>
                 /\ last'.ret = "push"
                 /\ emitted' = << >> /\ intentional' = intentional
            ELSE /\ routed' = << >>
                 /\ called' = << >>
                 /\ last'.ret # "push"]_vars

\* C22 witness: a push that carries the id of a pending request and names a
\* registered subscription and a channel has been routed to the handler
C22_Witness ==
    /\ last.op = "message" /\ last.ret = "push"
    /\ frame.idk = "int" /\ frame.id \in DOMAIN pending
    /\ routed = << [sub |-> "s1", chan |-> "event", data |-> "p"] >>
    /\ called = << [cb |-> 1, data |-> "p"] >>

\* C23: get_delay(attempt) returns none exactly when attempt >= max_retries;
\* otherwise it returns min(initial_delay * multiplier^attempt, max_delay)
\* plus a jitter in [0, jitter) (plus nothing when the jitter is 0); with
\* jitter 0, initial 100, multiplier 2 and cap 100000 the delays for the
\* attempts 0..3 are 100, 200, 400, 800; the result depends on the options
\* and the attempt only, whatever calls came before. (With a multiplier of
\* at least 2 the minimum is the cap for every attempt above MaxAttempt.)
C23_GetDelayAsStated ==
    LET init == cfg.backoff[1]
        cap == cfg.backoff[2]
        m == cfg.backoff[3]
        base == IF attempt <= MaxAttempt
                  THEN MinOf(init * m ^ attempt, cap) ELSE cap
    IN last.op = "get_delay"
       => /\ last.ret = "none" <=> attempt >= cfg.maxRetries
          /\ attempt < cfg.maxRetries
               => /\ last.ret = "delay"
                  /\ last.code >= base
                  /\ last.code < base + cfg.jitter \/ last.code = base
          /\ (/\ attempt < cfg.maxRetries /\ attempt <= 3 /\ cfg.jitter = 0
              /\ cfg.backoff = <<100, 100000, 2>>)
               => last.code = << 100, 200, 400, 800 >>[attempt + 1]

\* C24: no push is lost or duplicated. Every push that the server sends for
\* a subscription on the current connection, after the client has received
\* the server's response to the subscribe or resubscribe request, reaches
\* the callback of that subscription exactly once, whether or not the task
\* that awaits the response has resumed when the push is dispatched. (The
\* application of SpecSub never unsubscribes.)
C24_NoPushLostOrDuplicated ==
    [][(/\ last'.op = "message" /\ last'.ret = "push"
        /\ frame'.sub \in DOMAIN srv)
       => called' = << [cb |-> srv[frame'.sub].e, data |-> frame'.data] >>]_vars

\* C25: RequestManager.handle_message does not consume a frame of type push,
\* ping, welcome or system, a frame without an integer id, or a frame whose
\* id is not pending, also when such a frame carries the id of a pending
\* request: the pending table, the timers and the futures stay as they are
\* and the frame goes on down the dispatch chain, to the PushRouter (which
\* routes it when it is a well-formed push) and then to the system-message
\* handler (which emits session_revoked for that event).
C25_NonResponsesNotConsumed ==
    [][(/\ last'.op = "message"
        /\ \/ frame'.type \in NonResponseTypes
           \/ frame'.idk # "int"
           \/ frame'.id \notin DOMAIN pending)
       => /\ last'.ret # "response"
          /\ UNCHANGED << pending, timer, fut, setCount, nextId >>
          /\ (/\ frame'.type = "push" /\ frame'.sub \notin {"-", NotStr}
              /\ frame'.chan \notin {"-", NotStr})
               => routed' # << >>
          /\ (/\ frame'.type = "system" /\ frame'.data = "session_revoked")
               => /\ Len(emitted') = 1
                  /\ emitted'[1].name = "session_revoked"]_vars

\* C26: correlation ids are allocated strictly increasing and never reused
\* while the RequestManager lives, also across reconnects and after
\* timeouts, rejections and failed sends. Every request that reaches
\* RequestManager.send takes the next id, which no earlier request had (no
\* future, table entry, timer or frame exists for it); the counter never
\* goes back; and no id allocated before is armed again, so two requests
\* pending together never share an id.
C26_IdsIncreaseNeverReused ==
    [][/\ nextId' >= nextId
       /\ \A i \in Ids :
            (i >= nextId /\ i < nextId')
            => /\ fut[i] = NoFut /\ setCount[i] = 0
               /\ i \notin DOMAIN pending /\ i \notin timer
               /\ \A c \in 1..MaxConns : <<i, c>> \notin sent
               /\ fut'[i] = Waiting /\ i \in DOMAIN pending'
       /\ \A i \in Ids :
            i < nextId
            => /\ i \in DOMAIN pending' => i \in DOMAIN pending
               /\ fut'[i] = Waiting => fut[i] = Waiting
               /\ fut'[i] # NoFut
       /\ \A i \in Ids : i >= nextId => fut[i] = NoFut
       /\ (last'.op = "request" /\ last'.ret # "DISCONNECTED")
            => nextId' = nextId + 1]_vars

\* C26 witness: request 1 was sent on the first connection and failed when
\* that connection was lost; after the reconnect, request 2 is pending on
\* the second connection under the next id
C26_Witness ==
    /\ <<1, 1>> \in sent /\ fut[1] = DisconnectedError("Connection lost")
    /\ <<2, 2>> \in sent /\ fut[2] = Waiting /\ 2 \in DOMAIN pending
    /\ nextId = 3

\* C27: whenever the client is connected and no reconnect loop (so no
\* resubscription) is running, the ids in the subscription table are exactly
\* the ids of the subscriptions that the server has acknowledged on the
\* current connection, whose subscribe call has returned and whose
\* unsubscribe function has not been called; each id is held by one entry,
\* the one the server made the subscription for.
C27_TableMatchesServer ==
    LET Settled(k) ==
          /\ srv[k].c = ws
          /\ sstat[srv[k].e] = "active"
          /\ unsubCalls[srv[k].e] = 0
          /\ \A i \in 1..Len(rq) : rq[i] # Tok("sub", "-", srv[k].req)
    IN (state = "connected" /\ pc["loop"] = "idle" /\ ~reconnecting)
       => /\ Keys(subs) = { k \in DOMAIN srv : Settled(k) }
          /\ \A i, j \in 1..Len(subs) : subs[i].k = subs[j].k => i = j
          /\ \A i \in 1..Len(subs) : srv[subs[i].k].e = subs[i].e

\* C28: in resubscribe_all, when the resend for one entry fails, that entry
\* is removed from the table and no other entry is: every other entry stays
\* under its id (unless it is a later entry of the snapshot whose own resend
\* fails in the same step), the next entry of the snapshot is resent when
\* the client can send, and resubscribe_all does not raise (the loop stays
\* in the same attempt, in the batch or past it).
C28_FailedResendDropsOnlyItsEntry ==
    [][(ResubResume /\ fut[rid].st = "error")
       => LET e == snap[ri]
              rest == { snap[n] : n \in (ri + 1)..Len(snap) }
          IN /\ \A i \in 1..Len(subs') : subs'[i].e # e
             /\ \A i \in 1..Len(subs) :
                  subs[i].e # e
                  => \/ \E j \in 1..Len(subs') : subs'[j] = subs[i]
                     \/ pc'["loop"] = "idle" /\ subs[i].e \in rest
             /\ (ri < Len(snap) /\ RequestAllowed(state) /\ TransportCanSend)
                  => /\ pc'["loop"] = "resub" /\ rid' = nextId
                     /\ reqFor'[nextId] = snap[ri + 1]
             /\ attempt' = attempt /\ pc'["loop"] \in {"resub", "idle"}]_vars

\* C29: an entry that is registered while resubscribe_all is in progress (it
\* is in the table under its own id and is not in the batch's snapshot) is
\* not touched by a step of the batch: after the step it is still in the
\* table under the same id with the same callback, its id field is the same,
\* and the request the batch sent in the step, if any, is the resend of an
\* entry of the snapshot.
C29_LateEntryUntouchedByBatch ==
    [][ResubResume
       => \A i \in 1..Len(subs) :
            LET e == subs[i].e
                inSnap == \E n \in 1..Len(snap) : snap[n] = e
            IN (~inSnap /\ subs[i].k = entryId[e])
               => /\ \E j \in 1..Len(subs') : subs'[j] = subs[i]
                  /\ entryId'[e] = entryId[e]
                  /\ (nextId' # nextId => reqFor'[nextId] # e)]_vars

\* C30: a step that handles a system frame with event session_revoked
\* emits session_revoked once, with the frame's reason when that is a string
\* and with the default text otherwise, and sets the intentional flag; and
\* when the next step is the close of the transport, that step starts no
\* reconnect loop, leaves the client in state disconnected and emits
\* exactly one event, disconnected with the close reason, whatever the
\* reconnect option is.
C30_SessionRevokedThenClose ==
    [][/\ (/\ last'.op = "message" /\ last'.ret = "system"
           /\ frame'.data = "session_revoked")
          => /\ intentional'
             /\ emitted' = << Ev("session_revoked",
                                 IF frame'.code \in {"-", NotStr}
                                   THEN "Session revoked by administrator"
                                   ELSE frame'.code, 0) >>
       /\ (/\ last.op = "message" /\ last.ret = "system"
           /\ frame.data = "session_revoked"
           /\ last'.op = "close")
          => /\ reconnecting' = reconnecting /\ pc' = pc
             /\ state' = "disconnected"
             /\ emitted' = << Ev("disconnected", last'.ret, 0) >>]_vars

\* C31: at most one reconnect loop runs at any time. The _reconnecting flag
\* is set exactly while the task of _handle_reconnect exists, and a
\* transport close handled while that task exists starts no loop (the task
\* stays where it is), emits no event and leaves the client state and the
\* flag as they are.
C31_AtMostOneLoop ==
    [][/\ (reconnecting' <=> pc'["loop"] # "idle")
       /\ (last'.op = "close" /\ pc["loop"] # "idle")
          => /\ pc' = pc /\ reconnecting' = reconnecting
             /\ emitted' = << >> /\ state' = state
             /\ \A i \in 1..Len(rq') : rq'[i].k # "loop" \/ rq'[i] \in
                  { rq[j] : j \in 1..Len(rq) }]_vars

\* C31 witness: a close was handled while the loop was past its connect,
\* waiting for the welcome frame, the login or a resubscribe response
C31_Witness ==
    /\ last.op = "close"
    /\ pc["loop"] \in {"welcome", "login", "resub"}
    /\ reconnecting /\ ~intentional

\* C32: a call of the unsubscribe function of an entry removes that entry
\* from the table whatever id the entry is bound to by now, and removes no
\* entry of another subscription: after the call the table holds no entry
\* of the caller's subscription and every other entry as before.
C32_UnsubRemovesOwnEntryOnly ==
    [][last'.op = "unsub"
         => LET e == last'.code IN
            /\ \A i \in 1..Len(subs') : subs'[i].e # e
            /\ \A i \in 1..Len(subs) :
                 subs[i].e # e => \E j \in 1..Len(subs') : subs'[j] = subs[i]
      ]_vars

\* C33: when a batch of resubscribe_all ends in which every entry of the
\* snapshot was resent on the current connection and answered with a
\* result, the new ids being pairwise distinct, and no other subscription
\* was registered meanwhile, the table holds exactly one entry for each
\* entry of the snapshot, keyed by the new id of that entry, and the id
\* field of each entry is its new id.
C33_RebindKeepsEveryEntry ==
    [][LET InSnap(e) == \E n \in 1..Len(snap) : snap[n] = e
           Resent(e, i) == /\ reqFor[i] = e /\ <<i, ws>> \in sent
                           /\ fut[i].st = "result"
                           /\ \A j \in Ids : reqFor[j] = e => j <= i
           NewId(e) == fut[CHOOSE i \in Ids : Resent(e, i)].data
       IN (/\ ResubResume /\ pc'["loop"] # "resub"
           /\ \A n \in 1..Len(snap) : \E i \in Ids : Resent(snap[n], i)
           /\ \A m, n \in 1..Len(snap) :
                m # n => /\ snap[m] # snap[n]
                         /\ NewId(snap[m]) # NewId(snap[n])
           /\ \A e \in Entries : ~InSnap(e) => sstat[e] # "active")
          => /\ Len(subs') = Len(snap)
             /\ \A n \in 1..Len(snap) :
                  /\ Get(subs', NewId(snap[n])) = snap[n]
                  /\ entryId'[snap[n]] = NewId(snap[n])
      ]_vars

\* C34: whenever the client rests in state connected (no reconnect loop is
\* running, and neither connect() nor disconnect() is in progress), the
\* transport is connected.
C34_ConnectedHasLiveTransport ==
    (/\ state = "connected" /\ ~reconnecting
     /\ pc["conn"] = "idle" /\ pc["loop"] = "idle" /\ discPc = "idle")
    => tstate = "connected"

\* C35: whenever the client rests in state disconnected right after
\* disconnect() has returned or connect() has raised (no reconnect loop is
\* running and no call of connect() or disconnect() is in progress), the
\* transport is
\* neither connected nor connecting and no receive task is alive; and no
\* step other than a call of connect() takes the client out of that
\* situation by starting a reconnect loop.
C35_DisconnectedRestsClosed ==
    [][LET Rests == /\ state = "disconnected" /\ ~reconnecting
                    /\ pc["conn"] = "idle" /\ pc["loop"] = "idle"
                    /\ discPc = "idle"
                    /\ last.op \in {"disconnect", "connect"}
       IN Rests => /\ tstate \notin {"connected", "connecting"}
                   /\ recv = {}
                   /\ last'.op # "connect"
                        => /\ ~reconnecting' /\ pc'["loop"] = "idle"]_vars

\* C36: every entry of the pending table belongs to a call of send that is
\* waiting for its result: a request whose transport.send raised has no
\* entry in the table and no running timer.
C36_NoEntryForFailedSend ==
    \A i \in sendFailed : i \notin DOMAIN pending /\ i \notin timer

\* C37: whenever the client state is disconnected, the pending-request
\* table is empty.
C37_DisconnectedHasNoPending ==
    state = "disconnected" => pending = EmptyMap

\* C38: a reconnect loop that disconnect() has aborted (the abort event of
\* its current iteration is set) starts no further iteration and no further
\* connect attempt and emits no event in any of its later steps, whatever
\* the application has called in between; and no step emits connected or
\* welcome more than once.
C38_AbortedLoopStaysQuiet ==
    [][/\ (/\ abortEv = "set" /\ pc["loop"] # "idle"
           /\ pc'["loop"] # pc["loop"])
          => /\ emitted' = << >>
             /\ pc'["loop"] \notin {"backoff", "tconnect"}
             /\ abortEv' = abortEv
       /\ \A i, j \in 1..Len(emitted') :
            (emitted'[i].name = emitted'[j].name
             /\ emitted'[i].name \in {"connected", "welcome"}) => i = j
      ]_vars

\* C39: when the transport emits the message event for a welcome frame,
\* every listener that is in the listener list at that moment is invoked
\* for it: each _perform_connect whose welcome listener is registered and
\* whose welcome future is not done gets its future completed by that
\* frame, also when another welcome listener removes itself from the list
\* during the emission.
C39_EveryListenerInvoked ==
    [][(last'.op = "message" /\ frame'.type = "welcome")
         => \A i \in 1..Len(wl) :
              (wl[i] \in Tasks /\ wfut[wl[i]] = "waiting")
              => wfut'[wl[i]] \in {"ok_auth", "ok_noauth"}
      ]_vars

\* C40: every reconnect attempt starts from a transport that is not
\* connected: when the loop leaves its backoff wait for an attempt, the
\* transport is neither connected nor connecting, and the attempt begins
\* with a physical connect (it does not go straight to waiting for a
\* welcome on a connection that exists already).
C40_AttemptStartsFromClosedTransport ==
    [][(/\ pc["loop"] = "backoff"
        /\ pc'["loop"] \notin {"backoff", "idle"})
         => /\ tstate \notin {"connected", "connecting"}
            /\ pc'["loop"] = "tconnect"
            /\ tstate' = "connecting"
      ]_vars

====
